---- MODULE Spec2Model ----
(***************************************************************************)
(* Control plane of the platforms SDK: the Platform facade over the        *)
(* in-memory tenant, worker, bundle and hostname stores and the stub cache.*)
(*                                                                         *)
(* Every facade method is an async function and every method of the       *)
(* in-memory stores is an async function without an await of its own, so   *)
(* a storage call takes effect when it is issued.  A step of a call is the *)
(* code between two awaits: it ends with the effect of the storage call it *)
(* issues, and the first step runs when the call is made.  Calls of        *)
(* different processes interleave at these steps.  A check that only reads *)
(* what the storage call of a step returned is done in that step.          *)
(*                                                                         *)
(* Strings that the code concatenates into keys (ids, hostnames) are       *)
(* sequences of characters, so that key construction and startsWith are    *)
(* computed as the code computes them.                                     *)
(***************************************************************************)
EXTENDS Integers, Sequences, FiniteSets, TLC

VARIABLES
    tenants,    \* MemoryTenantStorage.store   : tenantId -> TenantRecord
    workers,    \* MemoryWorkerStorage.store   : "t:w" -> WorkerRecord
    bundles,    \* MemoryBundleStorage.store   : "t:w:vN" -> WorkerBundle
    routes,     \* MemoryHostnameStorage.routes: hostname -> HostnameRoute
    stubCache,  \* Platform.stubCache          : "t:w" -> {version, stub}
    pc,         \* per process: position inside the running call
    call,       \* per process: the running call and its arguments
    loc,        \* per process: the local variables of the running call
    result,     \* per process: what the finished call returned or threw
    hist,       \* per process: what happened around the call (for the properties)
    sequential, \* no call was ever made while another call was running
    calls,      \* the number of calls made so far
    defaults,   \* Platform._defaults
    app,        \* the example application: the persisted defaults and its PUT handler
    args,       \* the arguments a pure function is applied to
    ret,        \* what it returned
    templates,  \* MemoryTemplateStorage.store: template id -> record
    ephemeralBundles, \* the example application: the bundles cached in KV, by key
    kv          \* KVHostnameStorage.kv: key -> value

vars == <<tenants, workers, bundles, routes, stubCache, pc, call, loc, result,
          hist, sequential, calls, defaults, app, args, ret, templates,
          ephemeralBundles, kv>>

stores == <<tenants, workers, bundles, routes, stubCache>>

\* what the methods on tenants, workers and hostnames do not write
aside == <<defaults, app, args, ret, templates, ephemeralBundles, kv>>

-----------------------------------------------------------------------------
(* Bounds and input universes *)

MaxVersion == 2
MaxCalls == 4

Procs == {1, 2}
TenantIds == {<<"a">>}
WorkerIds == {<<"w">>, <<"x">>}
Hostnames == {<<"g">>, <<"h">>}

\* Worker w is created, updated, deleted, fetched and given hostnames; worker x
\* is a second worker of the tenant, created with or without hostname h, that
\* competes with w for it.
OperatedWorkerIds == {<<"w">>}

\* hostname lists given to addHostnames, to removeHostnames and to createWorker
HostLists == {<<<<"h">>>>, <<<<"g">>, <<"h">>>>}
RemoveHostLists == {<<<<"h">>>>}
CreateHostLists == {<<>>} \cup HostLists
CompetitorHostLists == {<<>>, <<<<"h">>>>}

-----------------------------------------------------------------------------
(* Strings and maps *)

StartsWith(s, prefix) ==
    /\ Len(prefix) <= Len(s)
    /\ SubSeq(s, 1, Len(prefix)) = prefix

DigitChar == <<"0", "1", "2", "3", "4", "5", "6", "7", "8", "9">>

RECURSIVE ToStr(_)
ToStr(n) ==
    IF n < 10 THEN <<DigitChar[n + 1]>>
    ELSE ToStr(n \div 10) \o <<DigitChar[(n % 10) + 1]>>

Null == [null |-> TRUE]

MapHas(m, k) == k \in DOMAIN m
MapGet(m, k) == IF k \in DOMAIN m THEN m[k] ELSE Null
MapSet(m, k, v) == [x \in DOMAIN m \cup {k} |-> IF x = k THEN v ELSE m[x]]
MapDelete(m, k) == [x \in DOMAIN m \ {k} |-> m[x]]
MapDeletePrefix(m, prefix) == [x \in {y \in DOMAIN m : ~StartsWith(y, prefix)} |-> m[x]]

\* object spread {...a, ...b}
Spread(a, b) == [k \in DOMAIN a \cup DOMAIN b |-> IF k \in DOMAIN b THEN b[k] ELSE a[k]]

RECURSIVE Dedup_last(_)
Dedup_last(list) ==
    IF list = <<>> THEN <<>>
    ELSE LET rest == Dedup_last(Tail(list))
         IN IF \E i \in 1..Len(rest) : rest[i] = Head(list) THEN rest ELSE <<Head(list)>> \o rest

RECURSIVE Dedup(_)
\* [...new Set(list)]: first occurrences, in order
Dedup(list) ==
    IF list = <<>> THEN <<>>
    ELSE LET front == Dedup(SubSeq(list, 1, Len(list) - 1))
             last == list[Len(list)]
         IN IF \E i \in 1..Len(front) : front[i] = last THEN front ELSE Append(front, last)

Includes(list, x) == \E i \in 1..Len(list) : list[i] = x

\* config.env, nothing when the level has none
Env(config) == IF "env" \in DOMAIN config THEN config.env ELSE <<>>

\* config.compatibilityFlags ?? []
Flags(config) ==
    IF "compatibilityFlags" \in DOMAIN config THEN config.compatibilityFlags ELSE <<>>

\* config.compatibilityDate
Date(config) ==
    IF "compatibilityDate" \in DOMAIN config THEN config.compatibilityDate ELSE "undefined"

\* config.limits
Limits(config) == IF "limits" \in DOMAIN config THEN config.limits ELSE Null

\* config.tails ?? []
Tails(config) == IF "tails" \in DOMAIN config THEN config.tails ELSE <<>>

\* a ?? b
Coalesce(a, b) == IF a # "undefined" THEN a ELSE b

\* the properties that ...limits copies: none when limits is undefined
Own(limits) == IF limits = Null THEN <<>> ELSE limits

-----------------------------------------------------------------------------
(* Storage keys *)

MemoryWorkerStorage_key(t, w) == t \o <<":">> \o w

MemoryBundleStorage_key_unversioned(t, w, version) == t \o <<":">> \o w \o <<":", "v", "1">>

MemoryBundleStorage_key(t, w, version) == t \o <<":">> \o w \o <<":", "v">> \o ToStr(version)

cacheKey(t, w) == t \o <<":">> \o w

loaderName(t, w, version) == t \o <<":">> \o w \o <<":", "v">> \o ToStr(version)

-----------------------------------------------------------------------------
(* Storage operations *)

MemoryWorkerStorage_deleteAll(store, t) == MapDeletePrefix(store, t \o <<":">>)

MemoryBundleStorage_deleteAll_first(store, t, w) ==
    MapDelete(store, t \o <<":">> \o w \o <<":", "v", "1">>)

MemoryBundleStorage_deleteAll(store, t, w) == MapDeletePrefix(store, t \o <<":">> \o w \o <<":">>)

MemoryHostnameStorage_listByWorker(store, t, w) ==
    {h \in DOMAIN store : store[h].tenantId = t /\ store[h].workerId = w}

MemoryHostnameStorage_deleteByWorker(store, t, w) ==
    [h \in DOMAIN store \ MemoryHostnameStorage_listByWorker(store, t, w) |-> store[h]]

-----------------------------------------------------------------------------
(* Process bookkeeping *)

NoCall == [op |-> "none"]
NoLoc == [tenant |-> Null, worker |-> Null, i |-> 0, hostnames |-> {}]
NoResult == [ok |-> FALSE, err |-> "none", version |-> 0, deleted |-> FALSE]

\* hist[p].isolation, from the call of p until its result is taken:
\*   "alone": no other call was running when p was called or was made since
\*   "key":   other calls were, but none on the same worker or its tenant
\*   "none":  a call on the same worker or its tenant was
\* hist[p].taken: the routes, when the call was made, of the hostnames of the
\* call that were routed to another worker
\* hist[p].free: the hostnames of the call that had no route when it was made
NoHist == [isolation |-> "alone", taken |-> {}, free |-> {}]

TenantOps == {"createTenant", "updateTenant", "deleteTenant", "runEphemeral"}

\* calls that are not on one tenant
GlobalOps == {"run", "route", "kv.put", "kv.delete", "kv.deleteByWorker", "registerTemplate", "updateTemplate", "deleteTemplate"}

\* calls that work on the same worker, or on the tenant that owns it; a call
\* that is not on one tenant works with all
Overlap(c, d) ==
    IF c.op \in GlobalOps \/ d.op \in GlobalOps
    THEN TRUE
    ELSE /\ c.t = d.t
         /\ \/ c.op \in TenantOps
            \/ d.op \in TenantOps
            \/ c.w = d.w

Running(p) == pc[p] \notin {"idle", "done"}

Range(list) == {list[i] : i \in 1..Len(list)}

\* the compatibility date when no level gives one
FallbackDate == "2026-01-24"

\* options without defaults
NoDefaults == [id |-> "c"]

\* this._defaults, as the constructor sets it from options.defaults
ConstructedDefaults(d) ==
    [env |-> Env(d),
     compatibilityDate |-> Coalesce(Date(d), FallbackDate),
     compatibilityFlags |-> Flags(d),
     limits |-> Limits(d),
     tails |-> Tails(d)]

\* the defaults of a Platform created without options.defaults
InitialDefaults == ConstructedDefaults(NoDefaults)

\* the handler of PUT /api/defaults is not running; nothing is persisted
InitialApp == [pc |-> "idle", persisted |-> Null, newDefaults |-> Null]

InitPlatform ==
    /\ tenants = <<>>
    /\ workers = <<>>
    /\ bundles = <<>>
    /\ routes = <<>>
    /\ stubCache = <<>>
    /\ pc = [p \in Procs |-> "idle"]
    /\ call = [p \in Procs |-> NoCall]
    /\ loc = [p \in Procs |-> NoLoc]
    /\ result = [p \in Procs |-> NoResult]
    /\ hist = [p \in Procs |-> NoHist]
    /\ sequential = TRUE
    /\ calls = 0
    /\ app = InitialApp
    /\ templates = <<>>
    /\ ephemeralBundles = <<>>
    /\ kv = <<>>

Init ==
    /\ InitPlatform
    /\ defaults = InitialDefaults
    /\ args = Null
    /\ ret = Null

\* p makes call c.  Free processes are interchangeable: the one with the
\* lowest number makes the next call.  The results of finished calls are taken
\* before the next call is made.
BeginCall(p, c) ==
    /\ pc[p] = "idle"
    /\ \A q \in Procs : pc[q] # "done"
    /\ \A q \in Procs : q < p => pc[q] # "idle"
    /\ calls < MaxCalls
    /\ calls' = calls + 1
    /\ call' = [call EXCEPT ![p] = c]
    /\ sequential' = (sequential /\ \A q \in Procs \ {p} : ~Running(q))
    /\ hist' = [q \in Procs |->
                  IF q = p
                  THEN [isolation |->
                            IF \E r \in Procs \ {p} : Running(r) /\ Overlap(call[r], c)
                            THEN "none"
                            ELSE IF \E r \in Procs \ {p} : Running(r) THEN "key"
                            ELSE "alone",
                        taken |->
                            IF "hs" \in DOMAIN c
                            THEN {routes[h] : h \in {g \in Range(c.hs) :
                                    /\ MapHas(routes, g)
                                    /\ (routes[g].tenantId # c.t \/ routes[g].workerId # c.w)}}
                            ELSE {},
                        free |->
                            IF "hs" \in DOMAIN c
                            THEN {h \in Range(c.hs) : ~MapHas(routes, h)}
                            ELSE {}]
                  ELSE IF pc[q] = "idle" THEN hist[q]
                  ELSE IF Overlap(call[q], c) THEN [hist[q] EXCEPT !.isolation = "none"]
                  ELSE IF hist[q].isolation = "alone" THEN [hist[q] EXCEPT !.isolation = "key"]
                  ELSE hist[q]]

\* p makes call c, of a method on tenants, workers or hostnames
Begin(p, c) ==
    /\ BeginCall(p, c)
    /\ UNCHANGED aside

\* p resumes its call at label
ResumeCall(p, label) ==
    /\ pc[p] = label
    /\ UNCHANGED <<call, hist, sequential, calls>>

\* p resumes, at label, its call of a method on tenants, workers or hostnames
Resume(p, label) ==
    /\ ResumeCall(p, label)
    /\ UNCHANGED aside

\* the call of p returns; v is the version of the metadata it returns (0: none)
\* and d the boolean a delete returns
Return(p, v, d) ==
    /\ pc' = [pc EXCEPT ![p] = "done"]
    /\ result' = [result EXCEPT ![p] = [ok |-> TRUE, err |-> "none", version |-> v, deleted |-> d]]
    /\ UNCHANGED loc

\* the call of p throws
Throw(p, e) ==
    /\ pc' = [pc EXCEPT ![p] = "done"]
    /\ result' = [result EXCEPT ![p] = [ok |-> FALSE, err |-> e, version |-> 0, deleted |-> FALSE]]
    /\ UNCHANGED loc

\* the call of p awaits, to resume at label with locals l
Goto(p, label, l) ==
    /\ pc' = [pc EXCEPT ![p] = label]
    /\ loc' = [loc EXCEPT ![p] = l]
    /\ UNCHANGED result

\* the caller of p takes the result of the finished call
Finish(p) ==
    /\ pc[p] = "done"
    /\ pc' = [pc EXCEPT ![p] = "idle"]
    /\ call' = [call EXCEPT ![p] = NoCall]
    /\ loc' = [loc EXCEPT ![p] = NoLoc]
    /\ result' = [result EXCEPT ![p] = NoResult]
    /\ hist' = [hist EXCEPT ![p] = NoHist]
    /\ UNCHANGED <<stores, sequential, calls, aside>>

-----------------------------------------------------------------------------
(* Platform.createTenant *)

\* new Date(): the time is the number of calls made so far
Now == calls

\* the configs given to createTenant
TenantConfigs == {[id |-> t] : t \in TenantIds}

NewTenantRecord_twoClocks(config, now) ==
    [metadata |-> [id |-> config.id, createdAt |-> now, updatedAt |-> now + 1],
     config |-> config]

NewTenantRecord(config, now) ==
    [metadata |-> [id |-> config.id, createdAt |-> now, updatedAt |-> now],
     config |-> config]

createTenant_get(p, config) ==
    /\ Begin(p, [op |-> "createTenant", t |-> config.id, config |-> config])
    /\ LET t == config.id IN
       IF MapHas(tenants, t)
       THEN Throw(p, "TenantExists")
       ELSE Goto(p, "ct_put", loc[p])
    /\ UNCHANGED stores

createTenant_put(p) ==
    /\ Resume(p, "ct_put")
    /\ tenants' = MapSet(tenants, call[p].config.id, NewTenantRecord(call[p].config, Now))
    /\ Return(p, 0, FALSE)
    /\ UNCHANGED <<workers, bundles, routes, stubCache>>

createTenant(p) ==
    \/ \E config \in TenantConfigs : createTenant_get(p, config)
    \/ createTenant_put(p)

-----------------------------------------------------------------------------
(* Platform.deleteTenant *)

\* the stub cache without the keys that start with "t:"
InvalidateTenant(cache, t) == MapDeletePrefix(cache, t \o <<":">>)

deleteTenant_workers(p, t) ==
    /\ Begin(p, [op |-> "deleteTenant", t |-> t])
    /\ workers' = MemoryWorkerStorage_deleteAll(workers, t)
    /\ Goto(p, "dt_tenant", loc[p])
    /\ UNCHANGED <<tenants, bundles, routes, stubCache>>

deleteTenant_tenant(p) ==
    /\ Resume(p, "dt_tenant")
    /\ stubCache' = InvalidateTenant(stubCache, call[p].t)
    /\ tenants' = MapDelete(tenants, call[p].t)
    /\ Return(p, 0, MapHas(tenants, call[p].t))
    /\ UNCHANGED <<workers, bundles, routes>>

deleteTenant(p) ==
    \/ \E t \in TenantIds : deleteTenant_workers(p, t)
    \/ deleteTenant_tenant(p)

-----------------------------------------------------------------------------
(* Platform.addHostnames; createWorker calls it for its hostnames *)

\* the version in the metadata that createWorker builds and returns
FirstVersion == 1

AssignedElsewhere_otherTenant(existing, t, w) ==
    /\ existing # Null
    /\ existing.tenantId # t

\* the route found for a hostname belongs to another worker
AssignedElsewhere(existing, t, w) ==
    /\ existing # Null
    /\ (existing.tenantId # t \/ existing.workerId # w)

\* the hostnames of the worker record after adding hs
AddedHostnames(currentHostnames, hs) == Dedup(currentHostnames \o hs)

\* the record the hostname operations write back: the record they read, with
\* new hostnames
WithHostnames(worker, hostnames) ==
    [worker EXCEPT !.config = [worker.config EXCEPT !.hostnames = hostnames]]

\* the first step of addHostnames, for call c: the worker is read
addHostnames_read(p, c) ==
    LET worker == MapGet(workers, MemoryWorkerStorage_key(c.t, c.w))
    IN IF worker = Null
       THEN Throw(p, "WorkerNotFound")
       ELSE Goto(p, IF Len(c.hs) > 0 THEN "ah_get" ELSE "ah_fin",
                 [loc[p] EXCEPT !.worker = worker, !.i = 1])

addHostnames_worker(p, t, w, hs) ==
    /\ Begin(p, [op |-> "addHostnames", t |-> t, w |-> w, hs |-> hs])
    /\ addHostnames_read(p, [t |-> t, w |-> w, hs |-> hs])
    /\ UNCHANGED stores

addHostnames_get(p) ==
    /\ Resume(p, "ah_get")
    /\ LET existing == MapGet(routes, call[p].hs[loc[p].i])
       IN IF AssignedElsewhere(existing, call[p].t, call[p].w)
          THEN Throw(p, "HostnameAssigned")
          ELSE Goto(p, "ah_put", loc[p])
    /\ UNCHANGED stores

addHostnames_put(p) ==
    /\ Resume(p, "ah_put")
    /\ LET hostname == call[p].hs[loc[p].i]
       IN routes' = MapSet(routes, hostname,
                           [hostname |-> hostname, tenantId |-> call[p].t, workerId |-> call[p].w])
    /\ IF loc[p].i < Len(call[p].hs)
       THEN Goto(p, "ah_get", [loc[p] EXCEPT !.i = @ + 1])
       ELSE Goto(p, "ah_fin", loc[p])
    /\ UNCHANGED <<tenants, workers, bundles, stubCache>>

addHostnames_fin(p) ==
    /\ Resume(p, "ah_fin")
    /\ LET worker == loc[p].worker
           currentHostnames == worker.config.hostnames
           newHostnames == AddedHostnames(currentHostnames, call[p].hs)
       IN workers' = IF Len(newHostnames) # Len(currentHostnames)
                     THEN MapSet(workers, MemoryWorkerStorage_key(call[p].t, call[p].w),
                                 WithHostnames(worker, newHostnames))
                     ELSE workers
    /\ Return(p, IF call[p].op = "createWorker" THEN FirstVersion ELSE 0, FALSE)
    /\ UNCHANGED <<tenants, bundles, routes, stubCache>>

addHostnames(p) ==
    \/ \E t \in TenantIds, w \in OperatedWorkerIds, hs \in HostLists : addHostnames_worker(p, t, w, hs)
    \/ addHostnames_get(p)
    \/ addHostnames_put(p)
    \/ addHostnames_fin(p)

-----------------------------------------------------------------------------
(* Platform.removeHostnames *)

RemainingHostnames(currentHostnames, hs) ==
    LET Keep(h) == ~Includes(hs, h) IN SelectSeq(currentHostnames, Keep)

removeHostnames_worker(p, t, w, hs) ==
    /\ Begin(p, [op |-> "removeHostnames", t |-> t, w |-> w, hs |-> hs])
    /\ LET worker == MapGet(workers, MemoryWorkerStorage_key(t, w))
       IN IF worker = Null
          THEN Throw(p, "WorkerNotFound")
          ELSE Goto(p, IF Len(hs) > 0 THEN "rh_delete" ELSE "rh_fin",
                    [loc[p] EXCEPT !.worker = worker, !.i = 1])
    /\ UNCHANGED stores

removeHostnames_delete(p) ==
    /\ Resume(p, "rh_delete")
    /\ routes' = MapDelete(routes, call[p].hs[loc[p].i])
    /\ IF loc[p].i < Len(call[p].hs)
       THEN Goto(p, "rh_delete", [loc[p] EXCEPT !.i = @ + 1])
       ELSE Goto(p, "rh_fin", loc[p])
    /\ UNCHANGED <<tenants, workers, bundles, stubCache>>

removeHostnames_fin(p) ==
    /\ Resume(p, "rh_fin")
    /\ LET worker == loc[p].worker
           currentHostnames == worker.config.hostnames
           remainingHostnames == RemainingHostnames(currentHostnames, call[p].hs)
       IN workers' = IF Len(remainingHostnames) # Len(currentHostnames)
                     THEN MapSet(workers, MemoryWorkerStorage_key(call[p].t, call[p].w),
                                 WithHostnames(worker, remainingHostnames))
                     ELSE workers
    /\ Return(p, 0, FALSE)
    /\ UNCHANGED <<tenants, bundles, routes, stubCache>>

removeHostnames(p) ==
    \/ \E t \in TenantIds, w \in OperatedWorkerIds, hs \in RemoveHostLists : removeHostnames_worker(p, t, w, hs)
    \/ removeHostnames_delete(p)
    \/ removeHostnames_fin(p)

-----------------------------------------------------------------------------
(* buildWorker: the bundler either returns the modules or throws *)

BuildOutcomes == {"built", "BuildFailed"}

\* with a bundle store whose put can fail: the build fails, or the put does
StoreOutcomes == BuildOutcomes \cup {"PutFailed"}

WorkerBundle(version) == [version |-> version]

BuiltBundles_always(store, t, w, version, outcome) ==
    MapSet(store, MemoryBundleStorage_key(t, w, version), WorkerBundle(version))

\* the bundle store after the build: bundles.put runs when buildWorker returned
BuiltBundles(store, t, w, version, outcome) ==
    IF outcome = "built"
    THEN MapSet(store, MemoryBundleStorage_key(t, w, version), WorkerBundle(version))
    ELSE store

-----------------------------------------------------------------------------
(* Platform.createWorker *)

NewWorkerRecord(t, id, hs) ==
    [metadata |-> [id |-> id, tenantId |-> t, version |-> FirstVersion],
     config |-> [id |-> id, tenantId |-> t, hostnames |-> hs]]

createWorker_tenant(p, t, id, hs) ==
    /\ Begin(p, [op |-> "createWorker", t |-> t, w |-> id, hs |-> hs])
    /\ IF MapHas(tenants, t)
       THEN Goto(p, "cw_existing", loc[p])
       ELSE Throw(p, "TenantNotFound")
    /\ UNCHANGED stores

createWorker_existing_unchecked(p) ==
    /\ Resume(p, "cw_existing")
    /\ Goto(p, "cw_bundle", loc[p])
    /\ UNCHANGED stores

createWorker_existing(p) ==
    /\ Resume(p, "cw_existing")
    /\ IF MapHas(workers, MemoryWorkerStorage_key(call[p].t, call[p].w))
       THEN Throw(p, "WorkerExists")
       ELSE Goto(p, "cw_bundle", loc[p])
    /\ UNCHANGED stores

createWorker_put_unawaited(p, outcomes) ==
    /\ Resume(p, "cw_bundle")
    /\ \E outcome \in outcomes :
          /\ bundles' = BuiltBundles(bundles, call[p].t, call[p].w, FirstVersion, outcome)
          /\ IF outcome = "BuildFailed"
             THEN Throw(p, outcome)
             ELSE Goto(p, "cw_worker", loc[p])
    /\ UNCHANGED <<tenants, workers, routes, stubCache>>

\* buildWorker resumes and bundles.put is called and awaited: with one of the
\* outcomes, the call goes on when the bundle is stored and throws otherwise
createWorker_put(p, outcomes) ==
    /\ Resume(p, "cw_bundle")
    /\ \E outcome \in outcomes :
          /\ bundles' = BuiltBundles(bundles, call[p].t, call[p].w, FirstVersion, outcome)
          /\ IF outcome = "built"
             THEN Goto(p, "cw_worker", loc[p])
             ELSE Throw(p, outcome)
    /\ UNCHANGED <<tenants, workers, routes, stubCache>>

\* with the in-memory bundle store, whose put does not fail
createWorker_bundle(p) == createWorker_put(p, BuildOutcomes)

\* the record with the files of the config, where the call gives files
WithFiles(record, l) ==
    IF "files" \in DOMAIN l
    THEN [metadata |-> record.metadata,
          config |-> [id |-> record.config.id, tenantId |-> record.config.tenantId,
                      hostnames |-> record.config.hostnames, files |-> l.files]]
    ELSE record

createWorker_worker(p) ==
    /\ Resume(p, "cw_worker")
    /\ workers' = MapSet(workers, MemoryWorkerStorage_key(call[p].t, call[p].w),
                         WithFiles(NewWorkerRecord(call[p].t, call[p].w, call[p].hs), loc[p]))
    /\ IF Len(call[p].hs) > 0
       THEN Goto(p, "cw_hostnames", loc[p])
       ELSE Return(p, FirstVersion, FALSE)
    /\ UNCHANGED <<tenants, bundles, routes, stubCache>>

\* createWorker calls addHostnames, whose first step reads the worker
createWorker_hostnames(p) ==
    /\ Resume(p, "cw_hostnames")
    /\ addHostnames_read(p, call[p])
    /\ UNCHANGED stores

createWorker(p) ==
    \/ \E t \in TenantIds, id \in WorkerIds :
          \E hs \in (IF id \in OperatedWorkerIds THEN CreateHostLists ELSE CompetitorHostLists) :
              createWorker_tenant(p, t, id, hs)
    \/ createWorker_existing(p)
    \/ createWorker_bundle(p)
    \/ createWorker_worker(p)
    \/ createWorker_hostnames(p)

-----------------------------------------------------------------------------
(* Platform.updateWorker *)

\* updates: a partial config; here its hostnames, or nothing
Updates == {<<>>, [hostnames |-> <<>>]}

NewVersion_unchanged(existing) == existing.metadata.version

NewVersion(existing) == existing.metadata.version + 1

UpdatedWorkerRecord(existing, updates, t, w) ==
    [metadata |-> [existing.metadata EXCEPT !.version = NewVersion(existing)],
     config |-> Spread(Spread(existing.config, updates), [id |-> w, tenantId |-> t])]

\* the version counter is capped: no update is issued on a worker at MaxVersion
VersionBelowCap(t, w) ==
    LET stored == MapGet(workers, MemoryWorkerStorage_key(t, w))
    IN IF stored = Null THEN TRUE ELSE stored.metadata.version < MaxVersion

updateWorker_existing(p, t, w, updates) ==
    /\ VersionBelowCap(t, w)
    /\ Begin(p, [op |-> "updateWorker", t |-> t, w |-> w, updates |-> updates])
    /\ LET existing == MapGet(workers, MemoryWorkerStorage_key(t, w))
       IN IF existing = Null
          THEN Throw(p, "WorkerNotFound")
          ELSE Goto(p, "uw_bundle", [loc[p] EXCEPT !.worker = existing])
    /\ UNCHANGED stores

\* buildWorker resumes and bundles.put is called and awaited
updateWorker_put(p, outcomes) ==
    /\ Resume(p, "uw_bundle")
    /\ \E outcome \in outcomes :
          /\ bundles' = BuiltBundles(bundles, call[p].t, call[p].w,
                                     NewVersion(loc[p].worker), outcome)
          /\ IF outcome = "built"
             THEN Goto(p, "uw_worker", loc[p])
             ELSE Throw(p, outcome)
    /\ UNCHANGED <<tenants, workers, routes, stubCache>>

updateWorker_bundle(p) == updateWorker_put(p, BuildOutcomes)

updateWorker_worker(p) ==
    /\ Resume(p, "uw_worker")
    /\ workers' = MapSet(workers, MemoryWorkerStorage_key(call[p].t, call[p].w),
                         UpdatedWorkerRecord(loc[p].worker, call[p].updates, call[p].t, call[p].w))
    /\ Goto(p, "uw_cache", loc[p])
    /\ UNCHANGED <<tenants, bundles, routes, stubCache>>

updateWorker_cache(p) ==
    /\ Resume(p, "uw_cache")
    /\ stubCache' = MapDelete(stubCache, cacheKey(call[p].t, call[p].w))
    /\ Return(p, NewVersion(loc[p].worker), FALSE)
    /\ UNCHANGED <<tenants, workers, bundles, routes>>

updateWorker(p) ==
    \/ \E t \in TenantIds, w \in OperatedWorkerIds, updates \in Updates : updateWorker_existing(p, t, w, updates)
    \/ updateWorker_bundle(p)
    \/ updateWorker_worker(p)
    \/ updateWorker_cache(p)

-----------------------------------------------------------------------------
(* Platform.deleteWorker *)

\* the call itself: the cache entry is dropped, then both deletions are issued
\* (Promise.all): hostnames.deleteByWorker lists the hostnames of the worker and
\* awaits, bundles.deleteAll runs
deleteWorker_bundles(p, t, w) ==
    /\ Begin(p, [op |-> "deleteWorker", t |-> t, w |-> w])
    /\ stubCache' = MapDelete(stubCache, cacheKey(t, w))
    /\ bundles' = MemoryBundleStorage_deleteAll(bundles, t, w)
    /\ Goto(p, "dw_hostnames",
            [loc[p] EXCEPT !.hostnames = MemoryHostnameStorage_listByWorker(routes, t, w)])
    /\ UNCHANGED <<tenants, workers, routes>>

\* hostnames.deleteByWorker resumes: it deletes the hostnames it listed
deleteWorker_hostnames(p) ==
    /\ Resume(p, "dw_hostnames")
    /\ routes' = [h \in DOMAIN routes \ loc[p].hostnames |-> routes[h]]
    /\ Goto(p, "dw_worker", loc[p])
    /\ UNCHANGED <<tenants, workers, bundles, stubCache>>

deleteWorker_worker(p) ==
    /\ Resume(p, "dw_worker")
    /\ workers' = MapDelete(workers, MemoryWorkerStorage_key(call[p].t, call[p].w))
    /\ Return(p, 0, MapHas(workers, MemoryWorkerStorage_key(call[p].t, call[p].w)))
    /\ UNCHANGED <<tenants, bundles, routes, stubCache>>

deleteWorker(p) ==
    \/ \E t \in TenantIds, w \in OperatedWorkerIds : deleteWorker_bundles(p, t, w)
    \/ deleteWorker_hostnames(p)
    \/ deleteWorker_worker(p)

-----------------------------------------------------------------------------
(* Platform.fetch, through Platform.getStub *)

mergeConfig_compatibilityDate_tenantFirst(d, tenant, worker) ==
    Coalesce(Date(tenant.config),
             Coalesce(Date(worker.config), Coalesce(Date(d), FallbackDate)))

\* worker, then tenant, then global: the first defined wins
mergeConfig_compatibilityDate(d, tenant, worker) ==
    Coalesce(Date(worker.config),
             Coalesce(Date(tenant.config), Coalesce(Date(d), FallbackDate)))

\* the three levels spread into one object when one of them has limits
mergeConfig_limits(d, tenant, worker) ==
    IF Limits(d) # Null \/ Limits(tenant.config) # Null \/ Limits(worker.config) # Null
    THEN Spread(Spread(Own(Limits(d)), Own(Limits(tenant.config))),
                Own(Limits(worker.config)))
    ELSE Null

mergeConfig_tails_deduped(d, tenant, worker) ==
    Dedup(Tails(d) \o Tails(tenant.config) \o Tails(worker.config))

\* the tails of all levels
mergeConfig_tails(d, tenant, worker) ==
    Tails(d) \o Tails(tenant.config) \o Tails(worker.config)

mergeConfig_tenantOverWorker(d, tenant, worker) ==
    [env |-> Spread(Spread(Env(d), Env(worker.config)), Env(tenant.config)),
     compatibilityDate |-> mergeConfig_compatibilityDate(d, tenant, worker),
     compatibilityFlags |->
         Dedup(Flags(d) \o Flags(tenant.config) \o Flags(worker.config)),
     limits |-> mergeConfig_limits(d, tenant, worker),
     tails |-> mergeConfig_tails(d, tenant, worker)]

\* the merged config: global defaults, then tenant, then worker
mergeConfig(d, tenant, worker) ==
    [env |-> Spread(Spread(Env(d), Env(tenant.config)), Env(worker.config)),
     compatibilityDate |-> mergeConfig_compatibilityDate(d, tenant, worker),
     compatibilityFlags |->
         Dedup(Flags(d) \o Flags(tenant.config) \o Flags(worker.config)),
     limits |-> mergeConfig_limits(d, tenant, worker),
     tails |-> mergeConfig_tails(d, tenant, worker)]

\* the stub the loader returns for a name: its cold start uses the merged config
Stub(name, merged) == [name |-> name, config |-> merged]

CacheHit_anyVersion(cached, worker) == cached # Null

\* cached && cached.version === worker.metadata.version
CacheHit(cached, worker) == cached # Null /\ cached.version = worker.metadata.version

\* the call itself: both reads are issued (Promise.all)
getStub_read(p, t, w) ==
    /\ Begin(p, [op |-> "fetch", t |-> t, w |-> w])
    /\ Goto(p, "gs_stub",
            [loc[p] EXCEPT !.tenant = MapGet(tenants, t),
                           !.worker = MapGet(workers, MemoryWorkerStorage_key(t, w))])
    /\ UNCHANGED stores

getStub_notFound_workerFirst(tenant, worker) ==
    IF worker = Null THEN "WorkerNotFound"
    ELSE IF tenant = Null THEN "TenantNotFound"
    ELSE "none"

\* the error getStub throws for the records it read
getStub_notFound(tenant, worker) ==
    IF tenant = Null THEN "TenantNotFound"
    ELSE IF worker = Null THEN "WorkerNotFound"
    ELSE "none"

\* after the reads: the cache lookup, or loader.get and the cache write
getStub_stub(p) ==
    /\ Resume(p, "gs_stub")
    /\ LET worker == loc[p].worker
           cached == MapGet(stubCache, cacheKey(call[p].t, call[p].w))
           notFound == getStub_notFound(loc[p].tenant, worker)
       IN IF notFound # "none"
          THEN Throw(p, notFound) /\ UNCHANGED stubCache
          ELSE IF CacheHit(cached, worker)
          THEN Return(p, cached.version, FALSE) /\ UNCHANGED stubCache
          ELSE /\ stubCache' = MapSet(stubCache, cacheKey(call[p].t, call[p].w),
                                      [version |-> worker.metadata.version,
                                       stub |-> Stub(loaderName(call[p].t, call[p].w,
                                                                worker.metadata.version),
                                                     mergeConfig(defaults, loc[p].tenant, worker))])
               /\ Goto(p, "gs_cold", loc[p])
    /\ UNCHANGED <<tenants, workers, bundles, routes>>

\* the cold-start callback of the loader reads the bundle of the version
getStub_coldStart(p) ==
    /\ Resume(p, "gs_cold")
    /\ LET version == loc[p].worker.metadata.version
           bundle == MapGet(bundles, MemoryBundleStorage_key(call[p].t, call[p].w, version))
       IN IF bundle = Null
          THEN Throw(p, "BundleNotFound")
          ELSE Return(p, bundle.version, FALSE)
    /\ UNCHANGED stores

fetch(p) ==
    \/ \E t \in TenantIds, w \in OperatedWorkerIds : getStub_read(p, t, w)
    \/ getStub_stub(p)
    \/ getStub_coldStart(p)

-----------------------------------------------------------------------------
(* Platform.updateTenant *)

\* updates: a partial tenant config; here its env
TenantUpdates == {[env |-> [K |-> "tenant"]]}

UpdatedTenantRecord(existing, updates, t, now) ==
    [metadata |-> [existing.metadata EXCEPT !.updatedAt = now],
     config |-> Spread(Spread(existing.config, updates), [id |-> t])]

updateTenant_existing(p, t, updates) ==
    /\ Begin(p, [op |-> "updateTenant", t |-> t, updates |-> updates])
    /\ LET existing == MapGet(tenants, t)
       IN IF existing = Null
          THEN Throw(p, "TenantNotFound")
          ELSE Goto(p, "ut_put", [loc[p] EXCEPT !.tenant = existing])
    /\ UNCHANGED stores

updateTenant_put(p) ==
    /\ Resume(p, "ut_put")
    /\ tenants' = MapSet(tenants, call[p].t,
                         UpdatedTenantRecord(loc[p].tenant, call[p].updates, call[p].t, Now))
    /\ Goto(p, "ut_cache", loc[p])
    /\ UNCHANGED <<workers, bundles, routes, stubCache>>

updateTenant_cache(p) ==
    /\ Resume(p, "ut_cache")
    /\ stubCache' = InvalidateTenant(stubCache, call[p].t)
    /\ Return(p, 0, FALSE)
    /\ UNCHANGED <<tenants, workers, bundles, routes>>

updateTenant(p) ==
    \/ \E t \in TenantIds, updates \in TenantUpdates : updateTenant_existing(p, t, updates)
    \/ updateTenant_put(p)
    \/ updateTenant_cache(p)

-----------------------------------------------------------------------------
(* Platform.updateDefaults: synchronous, so it runs in one step between the *)
(* steps of the running calls                                               *)

\* updates: partial defaults; here their env
DefaultsUpdates == {[env |-> [K |-> "global"]]}

UpdatedDefaults(d, updates) ==
    [env |-> Spread(d.env, Env(updates)),
     compatibilityDate |-> Coalesce(Date(updates), d.compatibilityDate),
     compatibilityFlags |->
         IF "compatibilityFlags" \in DOMAIN updates
         THEN updates.compatibilityFlags
         ELSE d.compatibilityFlags,
     limits |->
         IF Limits(updates) # Null
         THEN Spread(Own(d.limits), updates.limits)
         ELSE d.limits,
     tails |-> IF "tails" \in DOMAIN updates THEN updates.tails ELSE d.tails]

\* a synchronous call is made: it counts as a call, and every running call has
\* run together with it
SyncCall ==
    /\ calls < MaxCalls
    /\ \A q \in Procs : pc[q] # "done"
    /\ calls' = calls + 1
    /\ sequential' = (sequential /\ \A q \in Procs : ~Running(q))
    /\ hist' = [q \in Procs |->
                  IF pc[q] = "idle" THEN hist[q] ELSE [hist[q] EXCEPT !.isolation = "none"]]
    /\ UNCHANGED <<pc, call, loc, result, args, ret, templates, ephemeralBundles, kv>>

updateDefaults(updates) ==
    /\ SyncCall
    /\ defaults' = UpdatedDefaults(defaults, updates)
    /\ stubCache' = <<>>
    /\ UNCHANGED <<tenants, workers, bundles, routes, app>>

-----------------------------------------------------------------------------
(* The example application: PUT /api/defaults.  The handler calls            *)
(* updateDefaults on the platform, then saves the new defaults               *)

putDefaults_update(updates) ==
    /\ app.pc = "idle"
    /\ SyncCall
    /\ defaults' = UpdatedDefaults(defaults, updates)
    /\ stubCache' = <<>>
    /\ app' = [app EXCEPT !.pc = "save", !.newDefaults = UpdatedDefaults(defaults, updates)]
    /\ UNCHANGED <<tenants, workers, bundles, routes>>

\* savePlatformDefaults: the KV put of the new defaults
putDefaults_save ==
    /\ app.pc = "save"
    /\ app' = [pc |-> "idle", persisted |-> app.newDefaults, newDefaults |-> Null]
    /\ UNCHANGED <<stores, pc, call, loc, result, hist, sequential, calls, defaults, args, ret,
                   templates, ephemeralBundles, kv>>

putDefaults ==
    \/ \E updates \in DefaultsUpdates : putDefaults_update(updates)
    \/ putDefaults_save

-----------------------------------------------------------------------------
(* The platform with one worker, its tenant and the defaults: the calls that *)
(* read or invalidate the stub cache                                         *)

createWorker_plain(p) ==
    \/ \E t \in TenantIds, id \in OperatedWorkerIds : createWorker_tenant(p, t, id, <<>>)
    \/ createWorker_existing(p)
    \/ createWorker_bundle(p)
    \/ createWorker_worker(p)

NextCache ==
    \/ \E p \in Procs :
        \/ createTenant(p)
        \/ updateTenant(p)
        \/ deleteTenant(p)
        \/ createWorker_plain(p)
        \/ updateWorker(p)
        \/ deleteWorker(p)
        \/ fetch(p)
        \/ Finish(p)
    \/ \E updates \in DefaultsUpdates : updateDefaults(updates)
    \/ putDefaults

SpecCache == Init /\ [][NextCache]_vars

-----------------------------------------------------------------------------
(* mergeConfig applied to configs of the three levels *)

MaxFlags == 2
MaxTails == 2
MaxUpdates == 2

EnvKeys == {"A", "B"}
EnvValues == {"1", "2"}
FlagNames == {"a", "b", "c"}
Dates == {"2025-01-01", "2025-06-01"}
LimitFields == {"cpuMs", "subrequests"}
LimitValues == {"10", "50"}
TailNames == {"t", "u"}

\* env objects: any keys, any values
Envs == UNION {[keys -> EnvValues] : keys \in SUBSET EnvKeys}

\* flag lists of at most MaxFlags flags
FlagLists == UNION {[1..n -> FlagNames] : n \in 0..MaxFlags}

\* limits objects: each sub-field absent, present and undefined, or a number
LimitsObjects ==
    UNION {[fields -> LimitValues \cup {"undefined"}] : fields \in SUBSET LimitFields}

\* lists of at most MaxTails tail workers
TailLists == UNION {[1..n -> TailNames] : n \in 0..MaxTails}

\* a level's config: empty, or with one of the merged fields
LevelConfigs ==
    {NoDefaults}
        \cup {[id |-> "c", env |-> e] : e \in Envs}
        \cup {[id |-> "c", compatibilityFlags |-> f] : f \in FlagLists}
        \cup {[id |-> "c", compatibilityDate |-> x] : x \in Dates}
        \cup {[id |-> "c", limits |-> l] : l \in LimitsObjects}
        \cup {[id |-> "c", tails |-> l] : l \in TailLists}

MergedFields == {"env", "compatibilityFlags", "compatibilityDate", "limits", "tails"}

HasOnly(config, field) == DOMAIN config \subseteq {"id", field}

\* the configs that vary in one field
FieldConfigs(field) == {c \in LevelConfigs : HasOnly(c, field)}

\* the constructor's options.defaults, the tenant and the worker, and the
\* updates of the defaults made since the construction
MergeArgs(dc, tc, wc) ==
    [options |-> [defaults |-> dc],
     tenant |-> [config |-> tc],
     worker |-> [config |-> wc],
     updates |-> <<>>]

\* updates of the defaults: without a date, or with one
DateUpdates == {[env |-> <<>>]} \cup {[compatibilityDate |-> x] : x \in Dates}

\* the three levels vary in one of the merged fields
InitMerge ==
    /\ InitPlatform
    /\ \E field \in MergedFields :
          \E dc \in FieldConfigs(field), tc \in FieldConfigs(field), wc \in FieldConfigs(field) :
              /\ args = MergeArgs(dc, tc, wc)
              /\ defaults = ConstructedDefaults(dc)
    /\ ret = Null

\* updateDefaults before the merge, where the levels vary in their dates;
\* args.updates records the updates made
mergeConfig_updateDefaults ==
    /\ ret = Null
    /\ Len(args.updates) < MaxUpdates
    /\ HasOnly(args.options.defaults, "compatibilityDate")
    /\ HasOnly(args.tenant.config, "compatibilityDate")
    /\ HasOnly(args.worker.config, "compatibilityDate")
    /\ \E updates \in DateUpdates :
          /\ defaults' = UpdatedDefaults(defaults, updates)
          /\ args' = [args EXCEPT !.updates = Append(@, updates)]
    /\ stubCache' = <<>>
    /\ UNCHANGED <<tenants, workers, bundles, routes, pc, call, loc, result, hist,
                   sequential, calls, app, ret, templates, ephemeralBundles, kv>>

mergeConfig_apply ==
    /\ ret = Null
    /\ ret' = mergeConfig(defaults, args.tenant, args.worker)
    /\ UNCHANGED <<stores, pc, call, loc, result, hist, sequential, calls, defaults, app, args,
                   templates, ephemeralBundles, kv>>

NextMerge ==
    \/ mergeConfig_updateDefaults
    \/ mergeConfig_apply

SpecMerge == InitMerge /\ [][NextMerge]_vars

-----------------------------------------------------------------------------

(* Templates: texts are sequences of characters *)

\* the characters that \w matches
WordChars == {"a", "b", "x", "v", "1", "2", "u", "n", "d", "e", "f", "i"}

SlotNames == {<<"a">>, <<"b">>}

\* {{name}}
Placeholder(name) == <<"{", "{">> \o name \o <<"}", "}">>

\* pattern occurs in s at position i
MatchesAt(s, i, pattern) ==
    /\ i + Len(pattern) - 1 <= Len(s)
    /\ SubSeq(s, i, i + Len(pattern) - 1) = pattern

RECURSIVE WordEnd(_, _)
\* the last position of the run of word characters of s that starts at i
WordEnd(s, i) == IF i <= Len(s) /\ s[i] \in WordChars THEN WordEnd(s, i + 1) ELSE i - 1

RECURSIVE SlotMatches(_, _)
\* the names that /\{\{(\w+)\}\}/g matches in s from position i on
SlotMatches(s, i) ==
    IF i > Len(s)
    THEN {}
    ELSE LET j == WordEnd(s, i + 2)
         IN IF MatchesAt(s, i, <<"{", "{">>) /\ j >= i + 2 /\ MatchesAt(s, j + 1, <<"}", "}">>)
            THEN {SubSeq(s, i + 2, j)} \cup SlotMatches(s, j + 3)
            ELSE SlotMatches(s, i + 1)

extractSlotNames(files) == UNION {SlotMatches(files[path], 1) : path \in DOMAIN files}

\* definedSlots
DefinedSlots(slots) == {slots[k].name : k \in 1..Len(slots)}

\* the validation of registerTemplate and updateTemplate passes
SlotsDefined(config) == extractSlotNames(config.files) \subseteq DefinedSlots(config.slots)

RECURSIVE Expand(_, _)
\* the replacement text of String.prototype.replace for a match: $$ gives $,
\* $& gives the matched text
Expand(value, matched) ==
    IF value = <<>>
    THEN <<>>
    ELSE IF MatchesAt(value, 1, <<"$", "$">>)
    THEN <<"$">> \o Expand(SubSeq(value, 3, Len(value)), matched)
    ELSE IF MatchesAt(value, 1, <<"$", "&">>)
    THEN matched \o Expand(SubSeq(value, 3, Len(value)), matched)
    ELSE <<value[1]>> \o Expand(Tail(value), matched)

RECURSIVE String_replace(_, _, _)
\* s.replace(new RegExp(pattern, 'g'), value), for a pattern that is a text
String_replace(s, pattern, value) ==
    IF s = <<>>
    THEN <<>>
    ELSE IF MatchesAt(s, 1, pattern)
    THEN Expand(value, pattern)
             \o String_replace(SubSeq(s, Len(pattern) + 1, Len(s)), pattern, value)
    ELSE <<s[1]>> \o String_replace(Tail(s), pattern, value)

\* String(undefined)
UndefinedText == <<"u", "n", "d", "e", "f", "i", "n", "e", "d">>

\* values[slot.name] as replace uses it: slotValues[slot.name] ?? slot.default,
\* and undefined is converted to a string
ValueOf(slot, slotValues) ==
    IF slot.name \in DOMAIN slotValues THEN slotValues[slot.name]
    ELSE IF "default" \in DOMAIN slot THEN slot.default
    ELSE UndefinedText

RECURSIVE Interpolated(_, _, _)
\* the content after the replace of each slot, in the order of the slots
Interpolated(content, slots, slotValues) ==
    IF slots = <<>>
    THEN content
    ELSE Interpolated(String_replace(content, Placeholder(Head(slots).name),
                                     ValueOf(Head(slots), slotValues)),
                      Tail(slots), slotValues)

interpolateTemplate(template, slotValues) ==
    [path \in DOMAIN template.files |->
        Interpolated(template.files[path], template.slots, slotValues)]

previewTemplateFiles(template, slotValues) == interpolateTemplate(template, slotValues)

\* template files
TemplateFiles ==
    {[f |-> Placeholder(<<"a">>)],
     [f |-> <<"x">> \o Placeholder(<<"a">>) \o Placeholder(<<"b">>) \o Placeholder(<<"a">>)],
     [f |-> Placeholder(<<"a">>), g |-> Placeholder(<<"b">>) \o <<"x">>],
     [f |-> <<"x">>]}

\* slot declarations, with a default or without
Slots ==
    {[name |-> n] : n \in SlotNames}
        \cup {[name |-> <<"a">>, default |-> <<"1">>], [name |-> <<"b">>, default |-> <<"2">>]}

\* lists of slots with different names
SlotLists ==
    {l \in UNION {[1..n -> Slots] : n \in 0..Cardinality(SlotNames)} :
        \A i, j \in 1..Len(l) : i # j => l[i].name # l[j].name}

\* the texts a caller gives for a slot
SlotTexts == {<<"v">>, Placeholder(<<"b">>), <<"$", "&">>, <<"$", "$">>}

\* the caller's slot values
SlotValues == UNION {[names -> SlotTexts] : names \in SUBSET SlotNames}

InitInterpolate ==
    /\ InitPlatform
    /\ defaults = InitialDefaults
    /\ \E files \in TemplateFiles, slots \in SlotLists, slotValues \in SlotValues :
          args = [template |-> [id |-> "T", files |-> files, slots |-> slots],
                  slots |-> slotValues]
    /\ ret = Null

previewTemplateFiles_apply ==
    /\ ret = Null
    /\ ret' = previewTemplateFiles(args.template, args.slots)
    /\ UNCHANGED <<stores, pc, call, loc, result, hist, sequential, calls, defaults, app, args,
                   templates, ephemeralBundles, kv>>

NextInterpolate == previewTemplateFiles_apply

SpecInterpolate == InitInterpolate /\ [][NextInterpolate]_vars

-----------------------------------------------------------------------------
(* Platform.registerTemplate, updateTemplate, deleteTemplate and            *)
(* createWorkerFromTemplate                                                 *)

TemplateIds == {"T"}

\* the templates given to registerTemplate
TemplateConfigs ==
    {[id |-> id, files |-> files, slots |-> slots] :
        id \in TemplateIds,
        files \in {[f |-> Placeholder(<<"a">>)],
                   [f |-> Placeholder(<<"a">>), g |-> Placeholder(<<"b">>) \o <<"x">>]},
        slots \in {<<[name |-> <<"a">>, default |-> <<"1">>]>>,
                   <<[name |-> <<"a">>, default |-> <<"1">>],
                     [name |-> <<"b">>, default |-> <<"2">>]>>}}

\* updates of a template: its files, its slots, or neither
TemplateUpdates ==
    {[files |-> c.files] : c \in TemplateConfigs}
        \cup {[slots |-> c.slots] : c \in TemplateConfigs}
        \cup {[description |-> "d"]}

\* the slot values given to createWorkerFromTemplate
WorkerSlotValues == {<<>>, [n \in {<<"a">>} |-> <<"v">>]}

\* the locals of a call that has read a template
WithTemplate(l, template) ==
    [tenant |-> l.tenant, worker |-> l.worker, i |-> l.i, hostnames |-> l.hostnames,
     template |-> template]

\* the locals of a createWorkerFromTemplate that has its files
WithInterpolated(l, files) ==
    [tenant |-> l.tenant, worker |-> l.worker, i |-> l.i, hostnames |-> l.hostnames,
     template |-> l.template, files |-> files]

NewTemplateRecord(config, now) ==
    [metadata |-> [id |-> config.id,
                   slotNames |-> [k \in 1..Len(config.slots) |-> config.slots[k].name],
                   createdAt |-> now, updatedAt |-> now],
     config |-> config]

registerTemplate_get_unvalidated(p, config) ==
    /\ BeginCall(p, [op |-> "registerTemplate", id |-> config.id, config |-> config])
    /\ IF MapHas(templates, config.id)
       THEN Throw(p, "TemplateExists")
       ELSE Goto(p, "rt_put", loc[p])
    /\ UNCHANGED <<stores, aside>>

\* templates.get, and the validation of the slots
registerTemplate_get(p, config) ==
    /\ BeginCall(p, [op |-> "registerTemplate", id |-> config.id, config |-> config])
    /\ IF MapHas(templates, config.id)
       THEN Throw(p, "TemplateExists")
       ELSE IF ~SlotsDefined(config)
       THEN Throw(p, "ValidationError")
       ELSE Goto(p, "rt_put", loc[p])
    /\ UNCHANGED <<stores, aside>>

registerTemplate_put(p) ==
    /\ ResumeCall(p, "rt_put")
    /\ templates' = MapSet(templates, call[p].id, NewTemplateRecord(call[p].config, Now))
    /\ Return(p, 0, FALSE)
    /\ UNCHANGED <<stores, defaults, app, args, ret, ephemeralBundles, kv>>

registerTemplate(p) ==
    \/ \E config \in TemplateConfigs : registerTemplate_get(p, config)
    \/ registerTemplate_put(p)

\* { ...existing.config, ...updates, id: templateId }
UpdatedTemplateConfig(existing, updates, id) ==
    [id |-> id,
     files |-> IF "files" \in DOMAIN updates THEN updates.files ELSE existing.config.files,
     slots |-> IF "slots" \in DOMAIN updates THEN updates.slots ELSE existing.config.slots]

UpdatedTemplateRecord(existing, updates, id, now) ==
    LET config == UpdatedTemplateConfig(existing, updates, id)
    IN [metadata |-> [id |-> existing.metadata.id,
                      slotNames |-> [k \in 1..Len(config.slots) |-> config.slots[k].name],
                      createdAt |-> existing.metadata.createdAt,
                      updatedAt |-> now],
        config |-> config]

\* templates.get, and the validation when the files or the slots are updated
updateTemplate_existing(p, id, updates) ==
    /\ BeginCall(p, [op |-> "updateTemplate", id |-> id, updates |-> updates])
    /\ LET existing == MapGet(templates, id)
       IN IF existing = Null
          THEN Throw(p, "TemplateNotFound")
          ELSE IF /\ ("files" \in DOMAIN updates \/ "slots" \in DOMAIN updates)
                  /\ ~SlotsDefined(UpdatedTemplateConfig(existing, updates, id))
          THEN Throw(p, "ValidationError")
          ELSE Goto(p, "tt_put", WithTemplate(loc[p], existing))
    /\ UNCHANGED <<stores, aside>>

updateTemplate_put(p) ==
    /\ ResumeCall(p, "tt_put")
    /\ templates' = MapSet(templates, call[p].id,
                           UpdatedTemplateRecord(loc[p].template, call[p].updates, call[p].id, Now))
    /\ Return(p, 0, FALSE)
    /\ UNCHANGED <<stores, defaults, app, args, ret, ephemeralBundles, kv>>

updateTemplate(p) ==
    \/ \E id \in TemplateIds, updates \in TemplateUpdates : updateTemplate_existing(p, id, updates)
    \/ updateTemplate_put(p)

\* templates.delete
deleteTemplate(p) ==
    \E id \in TemplateIds :
        /\ BeginCall(p, [op |-> "deleteTemplate", id |-> id])
        /\ templates' = MapDelete(templates, id)
        /\ Return(p, 0, MapHas(templates, id))
        /\ UNCHANGED <<stores, defaults, app, args, ret, ephemeralBundles, kv>>

createWorkerFromTemplate_template_raw(p, t, id, w, slotValues) ==
    /\ Begin(p, [op |-> "createWorkerFromTemplate", t |-> t, w |-> w, hs |-> <<>>,
                 id |-> id, slots |-> slotValues])
    /\ LET template == MapGet(templates, id)
       IN IF template = Null
          THEN Throw(p, "TemplateNotFound")
          ELSE Goto(p, "cwt_tenant",
                    WithInterpolated(WithTemplate(loc[p], template), template.config.files))
    /\ UNCHANGED stores

\* templates.get, and the interpolation of the files
createWorkerFromTemplate_template(p, t, id, w, slotValues) ==
    /\ Begin(p, [op |-> "createWorkerFromTemplate", t |-> t, w |-> w, hs |-> <<>>,
                 id |-> id, slots |-> slotValues])
    /\ LET template == MapGet(templates, id)
       IN IF template = Null
          THEN Throw(p, "TemplateNotFound")
          ELSE Goto(p, "cwt_tenant",
                    WithInterpolated(WithTemplate(loc[p], template),
                                     interpolateTemplate(template.config, slotValues)))
    /\ UNCHANGED stores

\* the call of createWorker: tenants.get
createWorkerFromTemplate_tenant(p) ==
    /\ Resume(p, "cwt_tenant")
    /\ IF MapHas(tenants, call[p].t)
       THEN Goto(p, "cw_existing", loc[p])
       ELSE Throw(p, "TenantNotFound")
    /\ UNCHANGED stores

createWorkerFromTemplate(p) ==
    \/ \E t \in TenantIds, id \in TemplateIds, w \in OperatedWorkerIds,
          slotValues \in WorkerSlotValues :
              createWorkerFromTemplate_template(p, t, id, w, slotValues)
    \/ createWorkerFromTemplate_tenant(p)
    \/ createWorker_existing(p)
    \/ createWorker_bundle(p)
    \/ createWorker_worker(p)

NextTemplate ==
    \E p \in Procs :
        \/ createTenant(p)
        \/ registerTemplate(p)
        \/ updateTemplate(p)
        \/ deleteTemplate(p)
        \/ createWorkerFromTemplate(p)
        \/ Finish(p)

SpecTemplate == Init /\ [][NextTemplate]_vars

-----------------------------------------------------------------------------
(* Platform.runEphemeral, and POST /api/run of the example application *)

PathsInOrder == <<"a", "b">>

\* files objects: the (path, content) properties in the order of their keys
FilesObjects ==
    {<<<<"a", "1">>, <<"b", "2">>>>,
     <<<<"b", "2">>, <<"a", "1">>>>,
     <<<<"a", "2">>>>}

\* the files runEphemeral is called with
EphemeralFiles == {<<<<"a", "1">>, <<"b", "2">>>>}

\* build options
BuildOptions == {[minify |-> FALSE], [minify |-> TRUE]}

\* Object.keys(files).sort()
SortedKeys(files) ==
    SelectSeq(PathsInOrder, LAMBDA k : \E i \in 1..Len(files) : files[i][1] = k)

\* JSON.stringify(files, keys): the properties named by keys, in their order
Stringify(files, keys) ==
    [n \in 1..Len(keys) |->
        <<keys[n], files[CHOOSE i \in 1..Len(files) : files[i][1] = keys[n]][2]>>]

\* the digest of the serialised files; a text has one digest, and the texts
\* here have different digests
hashFiles(files) == Stringify(files, SortedKeys(files))

EPHEMERAL_BUNDLE_PREFIX == "ephemeral-bundle:"

\* cacheKey of POST /api/run
run_cacheKey(files) == <<EPHEMERAL_BUNDLE_PREFIX, hashFiles(files)>>

\* what buildWorker returns: the modules of the files, built with the options
CreateWorkerResult(files, options) ==
    [modules |-> Range(files), minify |-> options.minify]

\* the locals of a call that has a bundle; built: the call ran the bundler
WithBundle(l, bundle, built) ==
    [tenant |-> l.tenant, worker |-> l.worker, i |-> l.i, hostnames |-> l.hostnames,
     bundle |-> bundle, built |-> built]

runEphemeral_tenant(p, t, files, options) ==
    /\ Begin(p, [op |-> "runEphemeral", t |-> t, files |-> files, options |-> options])
    /\ IF MapHas(tenants, t)
       THEN Goto(p, "re_build", [loc[p] EXCEPT !.tenant = tenants[t]])
       ELSE Throw(p, "TenantNotFound")
    /\ UNCHANGED stores

runEphemeral_build_stored(p) ==
    /\ Resume(p, "re_build")
    /\ \E outcome \in BuildOutcomes :
          /\ bundles' = BuiltBundles(bundles, call[p].t, <<"ephemeral">>, FirstVersion, outcome)
          /\ IF outcome = "built"
             THEN Goto(p, "re_fetch",
                       WithBundle(loc[p], CreateWorkerResult(call[p].files, call[p].options), TRUE))
             ELSE Throw(p, outcome)
    /\ UNCHANGED <<tenants, workers, routes, stubCache>>

\* await buildWorker(files, options?.build)
runEphemeral_build(p) ==
    /\ Resume(p, "re_build")
    /\ \E outcome \in BuildOutcomes :
          IF outcome = "built"
          THEN Goto(p, "re_fetch",
                    WithBundle(loc[p], CreateWorkerResult(call[p].files, call[p].options), TRUE))
          ELSE Throw(p, outcome)
    /\ UNCHANGED stores

\* loader.get under a name of its own, and the fetch on the stub
runEphemeral_fetch(p) ==
    /\ Resume(p, "re_fetch")
    /\ Return(p, 0, FALSE)
    /\ UNCHANGED stores

runEphemeral(p) ==
    \/ \E t \in TenantIds, files \in EphemeralFiles, options \in BuildOptions :
          runEphemeral_tenant(p, t, files, options)
    \/ runEphemeral_build(p)
    \/ runEphemeral_fetch(p)

\* POST /api/run without a tenantId: hashFiles, then env.WORKERS.get(cacheKey)
run_get(p, files, options) ==
    /\ Begin(p, [op |-> "run", files |-> files, options |-> options])
    /\ IF MapHas(ephemeralBundles, run_cacheKey(files))
       THEN Goto(p, "run_load",
                 WithBundle(loc[p], ephemeralBundles[run_cacheKey(files)], FALSE))
       ELSE Goto(p, "run_build", loc[p])
    /\ UNCHANGED stores

\* await buildWorker(files, options)
run_build(p) ==
    /\ Resume(p, "run_build")
    /\ \E outcome \in BuildOutcomes :
          IF outcome = "built"
          THEN Goto(p, "run_put",
                    WithBundle(loc[p], CreateWorkerResult(call[p].files, call[p].options), TRUE))
          ELSE Throw(p, outcome)
    /\ UNCHANGED stores

\* env.WORKERS.put(cacheKey, bundle)
run_put(p) ==
    /\ ResumeCall(p, "run_put")
    /\ ephemeralBundles' = MapSet(ephemeralBundles, run_cacheKey(call[p].files), loc[p].bundle)
    /\ Goto(p, "run_load", loc[p])
    /\ UNCHANGED <<stores, defaults, app, args, ret, templates, kv>>

\* the worker is loaded and run, and the response sent
run_load(p) ==
    /\ Resume(p, "run_load")
    /\ Return(p, 0, FALSE)
    /\ UNCHANGED stores

run(p) ==
    \/ \E files \in FilesObjects, options \in BuildOptions : run_get(p, files, options)
    \/ run_build(p)
    \/ run_put(p)
    \/ run_load(p)

NextRun ==
    \E p \in Procs :
        \/ createTenant(p)
        \/ deleteTenant(p)
        \/ runEphemeral(p)
        \/ Finish(p)

SpecRun == Init /\ [][NextRun]_vars

NextPlayground ==
    \E p \in Procs :
        \/ run(p)
        \/ Finish(p)

SpecPlayground == Init /\ [][NextPlayground]_vars

-----------------------------------------------------------------------------

Next ==
    \E p \in Procs :
        \/ createTenant(p)
        \/ deleteTenant(p)
        \/ createWorker(p)
        \/ updateWorker(p)
        \/ deleteWorker(p)
        \/ addHostnames(p)
        \/ removeHostnames(p)
        \/ fetch(p)
        \/ Finish(p)

Spec == Init /\ [][Next]_vars

-----------------------------------------------------------------------------
(* Properties *)

WorkerKey(p) == MemoryWorkerStorage_key(call[p].t, call[p].w)

Done(p, op) == pc[p] = "done" /\ call[p].op = op

\* no other call ran between the call of p and now
Alone(p) == hist[p].isolation = "alone"

\* no other call on the worker of p or on its tenant ran between the call of p
\* and now
Solo(p) == hist[p].isolation \in {"alone", "key"}

\* every version a worker can have had
Versions == 1..(MaxVersion + 1)

BundlesOf(t, w) == {v \in Versions : MapHas(bundles, MemoryBundleStorage_key(t, w, v))}

RoutesOf(t, w) == MemoryHostnameStorage_listByWorker(routes, t, w)

\* C1: in every reachable state, the intermediate states of running calls
\* included, the bundle of the version in the metadata of every stored worker
\* record is stored.
C1_BundleCoherence ==
    \A k \in DOMAIN workers :
        LET m == workers[k].metadata
        IN MapHas(bundles, MemoryBundleStorage_key(m.tenantId, m.id, m.version))

\* C2: a createWorker that succeeds returns version 1 and, with no other call
\* on the key, has stored a record at version 1; an updateWorker that succeeds
\* with no other call on the key returns, and has stored, the version that was
\* stored when it was called plus one.
C2_VersionOnCreateAndUpdate ==
    \A p \in Procs :
        /\ Done(p, "createWorker") /\ result[p].ok
             => /\ result[p].version = 1
                /\ Solo(p) => /\ MapHas(workers, WorkerKey(p))
                              /\ workers[WorkerKey(p)].metadata.version = 1
        /\ Done(p, "updateWorker") /\ result[p].ok /\ Solo(p)
             => /\ result[p].version = loc[p].worker.metadata.version + 1
                /\ MapHas(workers, WorkerKey(p))
                /\ workers[WorkerKey(p)].metadata.version = loc[p].worker.metadata.version + 1

\* C2 happens: an updateWorker with no other call on the key has succeeded on
\* a worker that createWorker stored at version 1.
C2_Witness ==
    \E p \in Procs :
        /\ Done(p, "updateWorker") /\ result[p].ok /\ Solo(p)
        /\ loc[p].worker.metadata.version = 1
        /\ result[p].version = 2

\* a step of a call of updateWorker, addHostnames or removeHostnames
HostnameOrUpdateStep ==
    \E p \in Procs :
        /\ pc[p] # pc'[p]
        /\ pc[p] # "done"
        /\ call'[p].op \in {"updateWorker", "addHostnames", "removeHostnames"}

\* C3: no step of updateWorker, addHostnames or removeHostnames, however the
\* calls interleave, lowers the stored version of a worker.
C3_VersionNeverDecreases ==
    [][HostnameOrUpdateStep =>
         \A k \in DOMAIN workers \cap DOMAIN workers' :
             workers'[k].metadata.version >= workers[k].metadata.version]_vars

\* C4: the write of every updateWorker that succeeds raises the stored version
\* of the worker by exactly one, so that k updates end at the initial version
\* plus k.
C4_UpdateIncrementsStoredVersion ==
    [][\A p \in Procs :
          pc[p] = "uw_worker" /\ pc'[p] = "uw_cache" /\ MapHas(workers, WorkerKey(p))
              => workers'[WorkerKey(p)].metadata.version
                     = workers[WorkerKey(p)].metadata.version + 1]_vars

\* C5: an addHostnames for an existing worker B, with no other call running,
\* that names a hostname routed to another worker A fails with the conflict
\* error and leaves that hostname routed to A; a route is stored under its own
\* hostname, so a hostname resolves to one worker at most.
C5_HostnameConflict ==
    /\ \A h \in DOMAIN routes : routes[h].hostname = h
    /\ \A p \in Procs :
          /\ Done(p, "addHostnames") /\ Alone(p)
          /\ MapHas(workers, WorkerKey(p))
          /\ hist[p].taken # {}
          => /\ ~result[p].ok
             /\ result[p].err = "HostnameAssigned"
             /\ \A r \in hist[p].taken : MapGet(routes, r.hostname) = r

\* C5 happens: an addHostnames for an existing worker has named a hostname of
\* another worker and has finished.
C5_Witness ==
    \E p \in Procs :
        /\ Done(p, "addHostnames") /\ Alone(p)
        /\ MapHas(workers, WorkerKey(p))
        /\ \E r \in hist[p].taken : r.workerId # call[p].w /\ MapGet(routes, r.hostname) = r

\* the calls of p and q, both finished and neither result taken, ran at the
\* same time: each saw another call run, and there is no third process
Concurrent(p, q) == p # q /\ ~Alone(p) /\ ~Alone(q)

RegistersHostnames(p) ==
    /\ pc[p] = "done"
    /\ call[p].op \in {"addHostnames", "createWorker"}

\* C6: of two calls that, at the same time, add the same hostname, unbound
\* when they were made, to two different workers, one at most succeeds.
C6_ConcurrentAddOneWinner ==
    \A p, q \in Procs :
        /\ Concurrent(p, q)
        /\ RegistersHostnames(p) /\ RegistersHostnames(q)
        /\ WorkerKey(p) # WorkerKey(q)
        /\ hist[p].free \cap hist[q].free # {}
        => ~(result[p].ok /\ result[q].ok)

Quiescent == \A p \in Procs : ~Running(p)

RouteIntegrity ==
    \A h \in DOMAIN routes :
        LET r == routes[h]
            worker == MapGet(workers, MemoryWorkerStorage_key(r.tenantId, r.workerId))
        IN /\ worker # Null
           /\ worker.metadata.tenantId = r.tenantId
           /\ worker.metadata.id = r.workerId
           /\ Includes(worker.config.hostnames, h)

\* C7: after any sequence of completed calls, made one after the other, every
\* route points to an existing worker whose hostnames contain the hostname.
C7_RouteIntegrity == sequential /\ Quiescent => RouteIntegrity

\* C8: after a deleteTenant(t) with no other call running, the tenant record
\* is gone and no worker, no bundle and no route of the tenant remains.
C8_DeleteTenantCascade ==
    \A p \in Procs :
        Done(p, "deleteTenant") /\ Alone(p)
            => /\ ~MapHas(tenants, call[p].t)
               /\ \A k \in DOMAIN workers : workers[k].metadata.tenantId # call[p].t
               /\ \A w \in WorkerIds : BundlesOf(call[p].t, w) = {}
               /\ \A h \in DOMAIN routes : routes[h].tenantId # call[p].t

\* C9: after a deleteWorker with no other call on the key, the worker record,
\* every bundle of the worker and every route to it are absent; the record is
\* removed last, when the bundles and the routes are already gone.
C9_DeleteWorkerCascade ==
    \A p \in Procs :
        /\ pc[p] = "dw_worker" /\ Solo(p)
              => /\ BundlesOf(call[p].t, call[p].w) = {}
                 /\ RoutesOf(call[p].t, call[p].w) = {}
        /\ Done(p, "deleteWorker") /\ Solo(p)
              => /\ ~MapHas(workers, WorkerKey(p))
                 /\ BundlesOf(call[p].t, call[p].w) = {}
                 /\ RoutesOf(call[p].t, call[p].w) = {}

\* C9 happens: a deleteWorker with no other call on the key has deleted a
\* worker that had routes.
C9_Witness ==
    \E p \in Procs :
        /\ Done(p, "deleteWorker") /\ Solo(p)
        /\ result[p].deleted
        /\ loc[p].hostnames # {}

\* C10: when createWorker, with no other call running, fails on a hostname
\* that is routed to another worker, no route that the call wrote remains.
C10_CreateWorkerRollback ==
    \A p \in Procs :
        /\ Done(p, "createWorker") /\ Alone(p)
        /\ result[p].err = "HostnameAssigned"
        => \A h \in hist[p].free : ~MapHas(routes, h)

\* p takes the step
Steps(p) == pc'[p] # pc[p]

\* the call of p returns, not throws, in the step
Returns(p, ops) ==
    /\ pc[p] # "done"
    /\ pc'[p] = "done"
    /\ result'[p].ok
    /\ call'[p].op \in ops

TenantEntries(cache, t) == {k \in DOMAIN cache : StartsWith(k, t \o <<":">>)}

\* C11: when updateWorker or deleteWorker returns, the stub cache has no entry
\* of the worker; when updateTenant or deleteTenant returns, it has no entry of
\* the tenant; when updateDefaults has run, it is empty.
C11_InvalidatedOnReturn ==
    [][/\ \A p \in Procs :
            /\ Returns(p, {"updateWorker", "deleteWorker"})
                   => ~MapHas(stubCache', cacheKey(call'[p].t, call'[p].w))
            /\ Returns(p, {"updateTenant", "deleteTenant"})
                   => TenantEntries(stubCache', call'[p].t) = {}
       /\ defaults' # defaults => stubCache' = <<>>]_vars

\* C12: when no updateTenant is running, a cache entry that the next fetch of
\* a worker would return (the tenant and the worker exist, the entry has the
\* worker's version) holds a stub whose config was merged from the current
\* tenant config and defaults.
C12_CacheResolvedFromCurrentConfig ==
    (\A p \in Procs : ~(Running(p) /\ call[p].op = "updateTenant"))
        => \A t \in TenantIds, w \in WorkerIds :
               LET tenant == MapGet(tenants, t)
                   worker == MapGet(workers, MemoryWorkerStorage_key(t, w))
                   cached == MapGet(stubCache, cacheKey(t, w))
               IN tenant # Null /\ worker # Null /\ CacheHit(cached, worker)
                      => cached.stub.config = mergeConfig(defaults, tenant, worker)

\* C13: a fetch that read no tenant record throws tenant-not-found, also when
\* it read no worker record either; one that read a tenant record but no worker
\* record throws worker-not-found; in both cases it goes no further (the loader
\* is not called) and the stub cache is unchanged.
C13_FetchNotFound ==
    [][\A p \in Procs :
          /\ pc[p] = "gs_stub"
          /\ Steps(p)
          /\ (loc[p].tenant = Null \/ loc[p].worker = Null)
          => /\ pc'[p] = "done"
             /\ ~result'[p].ok
             /\ result'[p].err = IF loc[p].tenant = Null THEN "TenantNotFound"
                                 ELSE "WorkerNotFound"
             /\ stubCache' = stubCache]_vars

\* C13 happens: a fetch has found the tenant but not the worker.
C13_Witness ==
    \E p \in Procs :
        /\ Done(p, "fetch")
        /\ loc[p].tenant # Null
        /\ loc[p].worker = Null
        /\ result[p].err = "WorkerNotFound"

\* C14: the cold start of the stub for (t, w, version) succeeds with the bundle
\* stored under "t:w:v<version>" when there is one and fails with
\* bundle-not-found when there is none; it builds and writes no bundle.
C14_ColdStartReadsBundle ==
    [][\A p \in Procs :
          pc[p] = "gs_cold" /\ pc'[p] = "done"
          => LET version == loc[p].worker.metadata.version
                 k == call[p].t \o <<":">> \o call[p].w \o <<":", "v">> \o ToStr(version)
             IN /\ IF MapHas(bundles, k)
                   THEN result'[p].ok /\ result'[p].version = version
                   ELSE ~result'[p].ok /\ result'[p].err = "BundleNotFound"
                /\ bundles' = bundles]_vars

\* C14 happens: a cold start has found no bundle, and the worker had been
\* read.
C14_Witness ==
    \E p \in Procs :
        /\ Done(p, "fetch")
        /\ loc[p].worker # Null
        /\ result[p].err = "BundleNotFound"

\* C15: the steps of a createWorker up to a failure of the build write no
\* worker record and no bundle; the steps of an updateWorker up to a failure of
\* the build leave the worker records, the bundles and the stub cache as they
\* are.
C15_BuildFailureWritesNothing ==
    [][\A p \in Procs :
          /\ /\ Steps(p)
             /\ call'[p].op = "createWorker"
             /\ \/ pc[p] \in {"idle", "cw_existing"}
                \/ pc[p] = "cw_bundle" /\ result'[p].err = "BuildFailed"
             => workers' = workers /\ bundles' = bundles
          /\ /\ Steps(p)
             /\ call'[p].op = "updateWorker"
             /\ \/ pc[p] = "idle"
                \/ pc[p] = "uw_bundle" /\ result'[p].err = "BuildFailed"
             => workers' = workers /\ bundles' = bundles /\ stubCache' = stubCache]_vars

\* C15 happens: the build of an updateWorker on a stored worker has failed.
C15_Witness ==
    \E p \in Procs :
        /\ Done(p, "updateWorker")
        /\ result[p].err = "BuildFailed"
        /\ MapHas(workers, WorkerKey(p))

\* C16: createTenant throws the conflict error exactly when a record of the id
\* is stored when it is called, and then changes no tenant record; otherwise
\* it stores a record with the config given and createdAt = updatedAt.
C16_CreateTenant ==
    [][\A p \in Procs :
          Steps(p) /\ call'[p].op = "createTenant"
          => /\ pc[p] = "idle"
                => /\ tenants' = tenants
                   /\ MapHas(tenants, call'[p].t)
                          <=> (pc'[p] = "done" /\ result'[p].err = "TenantExists")
             /\ pc[p] = "ct_put"
                => /\ result'[p].ok
                   /\ MapHas(tenants', call[p].t)
                   /\ tenants'[call[p].t].config = call[p].config
                   /\ tenants'[call[p].t].metadata.createdAt
                          = tenants'[call[p].t].metadata.updatedAt]_vars

\* C16 happens: createTenant has failed on a tenant that had been updated.
C16_Witness ==
    \E p \in Procs :
        /\ Done(p, "createTenant")
        /\ result[p].err = "TenantExists"
        /\ MapHas(tenants, call[p].t)
        /\ tenants[call[p].t].metadata.updatedAt # tenants[call[p].t].metadata.createdAt

\* C17: a createWorker called when the tenant is not stored, or that finds the
\* worker stored, throws at once: it does not reach the build and writes no
\* bundle, no worker record and no route.
C17_CreateWorkerRejected ==
    [][\A p \in Procs :
          Steps(p) /\ call'[p].op = "createWorker"
          => /\ pc[p] = "idle" /\ ~MapHas(tenants, call'[p].t)
                => /\ pc'[p] = "done"
                   /\ result'[p].err = "TenantNotFound"
                   /\ UNCHANGED <<workers, bundles, routes>>
             /\ pc[p] = "cw_existing" /\ MapHas(workers, WorkerKey(p))
                => /\ pc'[p] = "done"
                   /\ result'[p].err = "WorkerExists"
                   /\ UNCHANGED <<workers, bundles, routes>>]_vars

\* C17 happens: createWorker has failed on a stored worker.
C17_Witness ==
    \E p \in Procs :
        /\ Done(p, "createWorker")
        /\ result[p].err = "WorkerExists"
        /\ MapHas(workers, WorkerKey(p))

\* C18: when the stub cache is invalidated for new defaults, the new defaults
\* are written: the in-memory defaults in every case, and the persisted
\* defaults when the handler of PUT /api/defaults does it.
C18_DefaultsWrittenBeforeInvalidation ==
    [][/\ calls' # calls /\ pc' = pc
           => \E updates \in DefaultsUpdates :
                  /\ defaults' = UpdatedDefaults(defaults, updates)
                  /\ stubCache' = <<>>
       /\ app.pc = "idle" /\ app'.pc = "save"
           => app'.persisted = defaults']_vars

EnvAt(config, k) ==
    IF "env" \in DOMAIN config /\ k \in DOMAIN config.env THEN config.env[k] ELSE "undefined"

Applied == ret # Null

\* C19: for every key k, the merged env has the worker's value of k if it has
\* one, else the tenant's, else the defaults'; it has no k when no level has.
C19_EnvPrecedence ==
    Applied =>
        \A k \in EnvKeys :
            EnvAt(ret, k) =
                IF EnvAt(args.worker.config, k) # "undefined" THEN EnvAt(args.worker.config, k)
                ELSE IF EnvAt(args.tenant.config, k) # "undefined" THEN EnvAt(args.tenant.config, k)
                ELSE EnvAt(defaults, k)

\* C19 happens: a key has three different values at the three levels, and
\* another is inherited from the defaults.
C19_Witness ==
    /\ Applied
    /\ EnvAt(args.worker.config, "A") = "1"
    /\ EnvAt(args.tenant.config, "A") = "2"
    /\ EnvAt(args.worker.config, "B") = "undefined"
    /\ EnvAt(args.tenant.config, "B") = "undefined"
    /\ EnvAt(defaults, "B") = "2"
    /\ ret.env = [A |-> "1", B |-> "2"]

\* index of the first occurrence of x in list
FirstIndex(list, x) == CHOOSE i \in 1..Len(list) : list[i] = x /\ \A j \in 1..(i - 1) : list[j] # x

AllFlags == Flags(defaults) \o Flags(args.tenant.config) \o Flags(args.worker.config)

\* C20: the merged flags are the flags of defaults ++ tenant ++ worker, each
\* once, in the order of their first occurrences.
C20_FlagsFirstSeen ==
    Applied =>
        LET r == ret.compatibilityFlags
        IN /\ Range(r) = Range(AllFlags)
           /\ Len(r) = Cardinality(Range(AllFlags))
           /\ \A i, j \in 1..Len(r) :
                  i < j => FirstIndex(AllFlags, r[i]) < FirstIndex(AllFlags, r[j])

\* C20 happens: defaults [a], tenant [b, a], worker [c] give [a, b, c].
C20_Witness ==
    /\ Applied
    /\ defaults.compatibilityFlags = <<"a">>
    /\ Flags(args.tenant.config) = <<"b", "a">>
    /\ Flags(args.worker.config) = <<"c">>
    /\ ret.compatibilityFlags = <<"a", "b", "c">>

RECURSIVE ConfiguredDate(_, _)
\* the date the platform's defaults were given: by the last update that had
\* one, else by the constructor's options
ConfiguredDate(d, updates) ==
    IF updates = <<>>
    THEN Date(d)
    ELSE Coalesce(Date(updates[Len(updates)]),
                  ConfiguredDate(d, SubSeq(updates, 1, Len(updates) - 1)))

\* C21: the merged compatibilityDate is the worker's if it has one, else the
\* tenant's, else the one the platform defaults were given (at construction or
\* by an updateDefaults since), else "2026-01-24".
C21_CompatibilityDate ==
    Applied =>
        ret.compatibilityDate =
            Coalesce(Date(args.worker.config),
                Coalesce(Date(args.tenant.config),
                    Coalesce(ConfiguredDate(args.options.defaults, args.updates),
                             "2026-01-24")))

\* C21 happens: a Platform created without defaults, updated without a date,
\* merges a tenant and a worker that have no date.
C21_Witness ==
    /\ Applied
    /\ args.options.defaults = NoDefaults
    /\ args.tenant.config = NoDefaults
    /\ args.worker.config = NoDefaults
    /\ Len(args.updates) > 0
    /\ ConfiguredDate(args.options.defaults, args.updates) = "undefined"
    /\ ret.compatibilityDate = "2026-01-24"

\* limits.f, undefined when limits is absent or has no f
LimitAt(limits, f) ==
    IF limits # Null /\ f \in DOMAIN limits THEN limits[f] ELSE "undefined"

\* C22: each sub-field of the merged limits is the worker's if defined, else
\* the tenant's, else the defaults'; the merged limits are absent exactly when
\* limits is absent at the three levels.
C22_LimitsPerSubField ==
    Applied =>
        /\ \A f \in LimitFields :
              LimitAt(ret.limits, f) =
                  Coalesce(LimitAt(Limits(args.worker.config), f),
                      Coalesce(LimitAt(Limits(args.tenant.config), f),
                               LimitAt(defaults.limits, f)))
        /\ (ret.limits = Null) <=>
              /\ Limits(args.worker.config) = Null
              /\ Limits(args.tenant.config) = Null
              /\ defaults.limits = Null

\* C23: the merged tails are the defaults' tails, then the tenant's, then the
\* worker's, duplicates kept: as many as the three lists have together.
C23_TailsConcatenated ==
    Applied =>
        /\ ret.tails = defaults.tails \o Tails(args.tenant.config) \o Tails(args.worker.config)
        /\ Len(ret.tails) = Len(defaults.tails) + Len(Tails(args.tenant.config))
                                + Len(Tails(args.worker.config))

\* C23 happens: the same tail worker is listed at the three levels.
C23_Witness ==
    /\ Applied
    /\ defaults.tails = <<"t">>
    /\ Tails(args.tenant.config) = <<"t", "u">>
    /\ Tails(args.worker.config) = <<"t">>
    /\ ret.tails = <<"t", "t", "u", "t">>

\* C24: no step of a runEphemeral, whether the call goes on, returns or throws,
\* changes the tenants, the workers, the bundles, the routes or the stub cache.
C24_RunEphemeralWritesNothing ==
    [][\A p \in Procs :
          Steps(p) /\ call'[p].op = "runEphemeral"
          => /\ tenants' = tenants
             /\ workers' = workers
             /\ bundles' = bundles
             /\ routes' = routes
             /\ stubCache' = stubCache]_vars

\* C24 happens: a runEphemeral has returned, and another has failed.
C24_Witness ==
    \E p, q \in Procs :
        /\ Done(p, "runEphemeral") /\ result[p].ok
        /\ Done(q, "runEphemeral") /\ result[q].err = "BuildFailed"

\* the call of p has a bundle that its own run of the bundler gave
Built(p) ==
    /\ call[p].op \in {"runEphemeral", "run"}
    /\ "built" \in DOMAIN loc[p]
    /\ loc[p].built

\* C25: of two runEphemeral calls, or two POST /api/run requests, that run at
\* the same time with the same files and options, one at most runs the bundler.
C25_SingleFlight ==
    \A p, q \in Procs :
        /\ Concurrent(p, q)
        /\ call[p].op = call[q].op
        /\ Built(p) /\ Built(q)
        => \/ call[p].files # call[q].files
           \/ call[p].options # call[q].options

\* the canonical serialisation of a build input: the files with sorted keys,
\* followed by the options
Canonical(files, options) == <<Stringify(files, SortedKeys(files)), options>>

\* C26: two POST /api/run requests have the same cache key exactly when the
\* canonical serialisations of their inputs are equal, and a request is served
\* the bundle of its own files and options.
C26_FingerprintOfFilesAndOptions ==
    \A p, q \in Procs :
        /\ call[p].op = "run" /\ call[q].op = "run"
           => (run_cacheKey(call[p].files) = run_cacheKey(call[q].files)
                  <=> Canonical(call[p].files, call[p].options)
                          = Canonical(call[q].files, call[q].options))
        /\ call[p].op = "run" /\ "bundle" \in DOMAIN loc[p]
           => loc[p].bundle = CreateWorkerResult(call[p].files, call[p].options)

\* a slot of the template has a value: the caller's, or its default
HasValue(slot, slotValues) == slot.name \in DOMAIN slotValues \/ "default" \in DOMAIN slot

\* the caller's value for the slot, or the slot's default
GivenValue(slot, slotValues) ==
    IF slot.name \in DOMAIN slotValues THEN slotValues[slot.name] ELSE slot.default

RECURSIVE Substituted(_, _, _)
\* s with each {{name}} of a declared slot replaced by the value of the slot
Substituted(s, slots, slotValues) ==
    IF s = <<>>
    THEN <<>>
    ELSE IF \E k \in 1..Len(slots) : MatchesAt(s, 1, Placeholder(slots[k].name))
    THEN LET k == CHOOSE n \in 1..Len(slots) : MatchesAt(s, 1, Placeholder(slots[n].name))
         IN GivenValue(slots[k], slotValues)
                \o Substituted(SubSeq(s, Len(Placeholder(slots[k].name)) + 1, Len(s)),
                               slots, slotValues)
    ELSE <<s[1]>> \o Substituted(Tail(s), slots, slotValues)

\* C28: where every slot has a value or a default, the interpolated files have
\* the paths of the template's files, and each is the template's file with every
\* {{name}} of a slot replaced by the caller's value for the slot, or by the
\* slot's default when the caller gives none.
C28_InterpolationReplacesPlaceholders ==
    Applied /\ (\A k \in 1..Len(args.template.slots) : HasValue(args.template.slots[k], args.slots))
    => /\ DOMAIN ret = DOMAIN args.template.files
       /\ \A path \in DOMAIN args.template.files :
             ret[path] = Substituted(args.template.files[path], args.template.slots, args.slots)

\* C29: where a declared slot has neither a value from the caller nor a
\* default, the interpolation gives a validation error and no files.
C29_MissingValueIsAnError ==
    Applied /\ (\E k \in 1..Len(args.template.slots) : ~HasValue(args.template.slots[k], args.slots))
    => ret = [error |-> "ValidationError"]

\* name occurs as {{name}} in a file
Occurs(name, files) ==
    \E path \in DOMAIN files :
        \E i \in 1..Len(files[path]) : MatchesAt(files[path], i, Placeholder(name))

\* slot closure: every {{name}} of the files is the name of a slot
Closed(config) ==
    \A name \in SlotNames : Occurs(name, config.files) => name \in DefinedSlots(config.slots)

\* C27: every stored template has, for each {{name}} in its files, a slot of
\* that name; a registerTemplate of a new template, and an updateTemplate of a
\* stored one, whose resulting template would not, throw a validation error and
\* leave the templates as they are.
C27_SlotClosure ==
    [][/\ \A id \in DOMAIN templates' : Closed(templates'[id].config)
       /\ \A p \in Procs :
             /\ Steps(p) /\ pc[p] = "idle" /\ call'[p].op = "registerTemplate"
                /\ ~MapHas(templates, call'[p].id) /\ ~Closed(call'[p].config)
                => /\ pc'[p] = "done"
                   /\ result'[p].err = "ValidationError"
                   /\ templates' = templates
             /\ Steps(p) /\ pc[p] = "idle" /\ call'[p].op = "updateTemplate"
                /\ MapHas(templates, call'[p].id)
                /\ ~Closed(UpdatedTemplateConfig(templates[call'[p].id], call'[p].updates,
                                                 call'[p].id))
                => /\ pc'[p] = "done"
                   /\ result'[p].err = "ValidationError"
                   /\ templates' = templates]_vars

\* C27 happens: an updateTemplate has failed the validation on a stored
\* template, which an earlier updateTemplate had changed.
C27_Witness ==
    \E p \in Procs :
        /\ Done(p, "updateTemplate")
        /\ result[p].err = "ValidationError"
        /\ \E id \in DOMAIN templates :
              templates[id].metadata.updatedAt # templates[id].metadata.createdAt

\* C30: when a createWorkerFromTemplate returns, the worker is stored at
\* version 1 with the files interpolated from the template the call read, and
\* its bundle of version 1 is stored; a call for a template that is not stored
\* throws at once and writes no worker, no bundle and no route.
C30_WorkerFromTemplate ==
    [][\A p \in Procs :
          /\ Returns(p, {"createWorkerFromTemplate"})
             => /\ MapHas(workers', WorkerKey(p))
                /\ workers'[WorkerKey(p)].metadata.version = 1
                /\ result'[p].version = 1
                /\ workers'[WorkerKey(p)].config.files
                       = interpolateTemplate(loc[p].template.config, call[p].slots)
                /\ MapHas(bundles', MemoryBundleStorage_key(call[p].t, call[p].w, 1))
          /\ Steps(p) /\ pc[p] = "idle" /\ call'[p].op = "createWorkerFromTemplate"
             /\ ~MapHas(templates, call'[p].id)
             => /\ pc'[p] = "done"
                /\ result'[p].err = "TemplateNotFound"
                /\ UNCHANGED <<workers, bundles, routes>>]_vars

\* C30 happens: a createWorkerFromTemplate with a slot value of the caller has
\* returned, and the worker is stored with the value in its file.
C30_Witness ==
    \E p \in Procs :
        /\ Done(p, "createWorkerFromTemplate") /\ result[p].ok
        /\ call[p].slots # <<>>
        /\ MapHas(workers, WorkerKey(p))
        /\ workers[WorkerKey(p)].config.files.f = <<"v">>

-----------------------------------------------------------------------------
(* Platform.route *)

\* the hosts of the request URLs, as written in the URL
UrlHosts == {<<"h">>, <<"H">>, <<"k">>}

\* the request URLs: a host, with or without a port
Urls == {[host |-> host, port |-> port] : host \in UrlHosts, port \in {"", "8080"}}

LowerCase(char) ==
    CASE char = "H" -> "h"
      [] char = "G" -> "g"
      [] char = "K" -> "k"
      [] OTHER -> char

\* new URL(request.url).hostname: the host in lower case, without the port
URL_hostname(url) == [i \in 1..Len(url.host) |-> LowerCase(url.host[i])]

\* the (tenantId, workerId) of the fetch that route calls
WithTarget(c, hostnameRoute) ==
    [op |-> c.op, url |-> c.url, t |-> hostnameRoute.tenantId, w |-> hostnameRoute.workerId]

route_get_asWritten(p, url) ==
    LET hostnameRoute == MapGet(routes, url.host)
        c == [op |-> "route", url |-> url]
    IN /\ IF hostnameRoute = Null
          THEN Begin(p, c) /\ Return(p, 0, FALSE)
          ELSE Begin(p, WithTarget(c, hostnameRoute)) /\ Goto(p, "ro_fetch", loc[p])
       /\ UNCHANGED stores

\* hostnames.get; without a route the call returns null (version 0: no response)
route_get(p, url) ==
    LET hostnameRoute == MapGet(routes, URL_hostname(url))
        c == [op |-> "route", url |-> url]
    IN /\ IF hostnameRoute = Null
          THEN Begin(p, c) /\ Return(p, 0, FALSE)
          ELSE Begin(p, WithTarget(c, hostnameRoute)) /\ Goto(p, "ro_fetch", loc[p])
       /\ UNCHANGED stores

\* this.fetch(route.tenantId, route.workerId, ...): getStub issues its reads
route_fetch(p) ==
    /\ Resume(p, "ro_fetch")
    /\ Goto(p, "gs_stub",
            [loc[p] EXCEPT !.tenant = MapGet(tenants, call[p].t),
                           !.worker = MapGet(workers, MemoryWorkerStorage_key(call[p].t, call[p].w))])
    /\ UNCHANGED stores

route(p) ==
    \/ \E url \in Urls : route_get(p, url)
    \/ route_fetch(p)
    \/ getStub_stub(p)
    \/ getStub_coldStart(p)

\* workers with hostnames, and requests routed by hostname
NextRoute ==
    \E p \in Procs :
        \/ createTenant(p)
        \/ createWorker(p)
        \/ addHostnames(p)
        \/ deleteWorker(p)
        \/ route(p)
        \/ Finish(p)

SpecRoute == Init /\ [][NextRoute]_vars

\* the hostname of the URL as a URL parser gives it
ParsedHostname(url) ==
    CASE url.host = <<"H">> -> <<"h">>
      [] OTHER -> url.host

\* the step of p that fetch(t, w) would make from the same position
FetchStep(p) ==
    /\ pc'[p] = "gs_stub"
    /\ loc'[p].tenant = MapGet(tenants, call'[p].t)
    /\ loc'[p].worker = MapGet(workers, MemoryWorkerStorage_key(call'[p].t, call'[p].w))

\* C31: a route call returns null, with the stub cache and every store
\* untouched, exactly when no route is stored for the hostname of the request
\* URL when the call is made; otherwise it goes on as the fetch of the tenant
\* and worker of that route, and returns what that fetch returns.
C31_RouteByHostname ==
    [][\A p \in Procs :
          /\ Steps(p) /\ pc[p] = "idle" /\ call'[p].op = "route"
             => LET hostname == ParsedHostname(call'[p].url)
                IN IF ~MapHas(routes, hostname)
                   THEN /\ pc'[p] = "done"
                        /\ result'[p].ok /\ result'[p].version = 0
                        /\ UNCHANGED stores
                   ELSE /\ pc'[p] = "ro_fetch"
                        /\ call'[p].t = routes[hostname].tenantId
                        /\ call'[p].w = routes[hostname].workerId
                        /\ UNCHANGED stores
          /\ Steps(p) /\ pc[p] = "ro_fetch" => FetchStep(p) /\ UNCHANGED stores
          /\ Returns(p, {"route"}) /\ pc[p] # "idle" => result'[p].version > 0]_vars

\* C31 happens: a request whose URL writes the hostname in capitals and with a
\* port was routed to the worker of the hostname and answered.
C31_Witness ==
    \E p \in Procs :
        /\ Done(p, "route") /\ result[p].ok /\ result[p].version > 0
        /\ call[p].url = [host |-> <<"H">>, port |-> "8080"]
        /\ call[p].w = <<"w">>

-----------------------------------------------------------------------------
(* createWorker and updateWorker on a bundle store whose put can fail *)

createWorker_bundle_store(p) == createWorker_put(p, StoreOutcomes)

updateWorker_bundle_store(p) == updateWorker_put(p, StoreOutcomes)

NextStore ==
    \E p \in Procs :
        \/ createTenant(p)
        \/ \E t \in TenantIds, id \in OperatedWorkerIds : createWorker_tenant(p, t, id, <<>>)
        \/ createWorker_existing(p)
        \/ createWorker_bundle_store(p)
        \/ createWorker_worker(p)
        \/ \E t \in TenantIds, w \in OperatedWorkerIds, updates \in Updates :
              updateWorker_existing(p, t, w, updates)
        \/ updateWorker_bundle_store(p)
        \/ updateWorker_worker(p)
        \/ updateWorker_cache(p)
        \/ Finish(p)

SpecStore == Init /\ [][NextStore]_vars

\* C32: where no call deletes bundles, a step of a createWorker or updateWorker
\* call that puts the worker record at a version finds the bundle of that
\* version stored, and puts no bundle itself; a call whose bundle put fails
\* ends there, without a put of the worker record.
C32_BundleBeforeWorker ==
    [][\A p \in Procs :
          /\ Steps(p) /\ call[p].op \in {"createWorker", "updateWorker"}
             /\ MapGet(workers', WorkerKey(p)) # MapGet(workers, WorkerKey(p))
             => /\ MapHas(bundles, MemoryBundleStorage_key(call[p].t, call[p].w,
                              workers'[WorkerKey(p)].metadata.version))
                /\ bundles' = bundles
          /\ Steps(p) /\ pc'[p] = "done" /\ result'[p].err = "PutFailed"
             => /\ workers' = workers
                /\ pc[p] \in {"cw_bundle", "uw_bundle"}]_vars

\* C32 happens: an updateWorker has failed at its bundle put, and the worker
\* record is the one createWorker put at version 1 after its bundle.
C32_Witness ==
    \E p \in Procs :
        /\ Done(p, "updateWorker") /\ result[p].err = "PutFailed"
        /\ MapHas(workers, WorkerKey(p))
        /\ workers[WorkerKey(p)].metadata.version = 1
        /\ BundlesOf(call[p].t, call[p].w) = {1}

-----------------------------------------------------------------------------
(* getStub on a stored worker: the platform after createTenant(a) and       *)
(* createWorker(a, w) have returned                                         *)

StubTenant == <<"a">>
StubWorker == <<"w">>

InitStub ==
    /\ tenants = MapSet(<<>>, StubTenant, NewTenantRecord([id |-> StubTenant], 0))
    /\ workers = MapSet(<<>>, MemoryWorkerStorage_key(StubTenant, StubWorker),
                        NewWorkerRecord(StubTenant, StubWorker, <<>>))
    /\ bundles = BuiltBundles(<<>>, StubTenant, StubWorker, FirstVersion, "built")
    /\ routes = <<>>
    /\ stubCache = <<>>
    /\ pc = [p \in Procs |-> "idle"]
    /\ call = [p \in Procs |-> NoCall]
    /\ loc = [p \in Procs |-> NoLoc]
    /\ result = [p \in Procs |-> NoResult]
    /\ hist = [p \in Procs |-> NoHist]
    /\ sequential = TRUE
    /\ calls = 0
    /\ defaults = InitialDefaults
    /\ app = InitialApp
    /\ templates = <<>>
    /\ ephemeralBundles = <<>>
    /\ kv = <<>>
    /\ args = Null
    /\ ret = Null

NextStub ==
    \E p \in Procs :
        \/ updateWorker(p)
        \/ deleteWorker(p)
        \/ fetch(p)
        \/ Finish(p)

SpecStub == InitStub /\ [][NextStub]_vars

\* the name "t:w:v<version>"
VersionedName(t, w, version) == t \o <<":">> \o w \o <<":", "v">> \o ToStr(version)

\* C33: the step of getStub after its reads, when it found the tenant and the
\* worker, returns the cached stub and leaves the cache as it is if and only if
\* the cache has an entry for (t, w) with the version of the worker record the
\* call read; otherwise it gets a stub from the loader under "t:w:v<version>"
\* and stores it with that version under (t, w), the other entries unchanged.
\* The stub of every cache entry has the loader name of the entry's version.
C33_StubCache ==
    [][/\ \A p \in Procs :
             Steps(p) /\ pc[p] = "gs_stub" /\ loc[p].tenant # Null /\ loc[p].worker # Null
             => LET key == call[p].t \o <<":">> \o call[p].w
                    version == loc[p].worker.metadata.version
                IN IF MapHas(stubCache, key) /\ stubCache[key].version = version
                   THEN /\ pc'[p] = "done" /\ result'[p].ok
                        /\ result'[p].version = version
                        /\ stubCache' = stubCache
                   ELSE /\ pc'[p] = "gs_cold"
                        /\ MapHas(stubCache', key)
                        /\ stubCache'[key].version = version
                        /\ stubCache'[key].stub.name
                               = VersionedName(call[p].t, call[p].w, version)
                        /\ \A k \in DOMAIN stubCache' \ {key} :
                              MapHas(stubCache, k) /\ stubCache'[k] = stubCache[k]
       /\ \A k \in DOMAIN stubCache' :
             stubCache'[k].stub.name = k \o <<":", "v">> \o ToStr(stubCache'[k].version)]_vars

\* C33 happens: a fetch that read the worker at version 2 has got a stub from
\* the loader and cached it, and a fetch that read the worker at version 1 is
\* about to look up the cache.
C33_Witness ==
    \E p, q \in Procs :
        /\ call[p].op = "fetch" /\ pc[p] = "gs_cold"
        /\ loc[p].worker.metadata.version = 2
        /\ MapHas(stubCache, WorkerKey(p))
        /\ stubCache[WorkerKey(p)].version = 2
        /\ call[q].op = "fetch" /\ pc[q] = "gs_stub"
        /\ loc[q].worker # Null
        /\ loc[q].worker.metadata.version = 1

-----------------------------------------------------------------------------
(* KVHostnameStorage: the forward entries "hostname:<h>" and the reverse    *)
(* index "hostname-idx:<t>:<w>:<h>" in one KV namespace.  A step of a       *)
(* method ends with the KV call it issues.                                  *)

Text_hostname == <<"h", "o", "s", "t", "n", "a", "m", "e">>

\* `hostname:${hostname}`
KV_forwardKey(hostname) == Text_hostname \o <<":">> \o hostname

\* `hostname-idx:${tenantId}:${workerId}:`
KV_indexPrefix(t, w) == Text_hostname \o <<"-", "i", "d", "x", ":">> \o t \o <<":">> \o w \o <<":">>

\* `hostname-idx:${route.tenantId}:${route.workerId}:${hostname}`
KV_indexKey(t, w, hostname) == KV_indexPrefix(t, w) \o hostname

\* kv.get(`hostname:${hostname}`, 'json')
KVHostnameStorage_get(store, hostname) == MapGet(store, KV_forwardKey(hostname))

\* the names kv.list({prefix}) returns, without the prefix
KVHostnameStorage_listByWorker(store, t, w) ==
    {SubSeq(k, Len(KV_indexPrefix(t, w)) + 1, Len(k)) :
        k \in {key \in DOMAIN store : StartsWith(key, KV_indexPrefix(t, w))}}

\* the listed hostnames as a list: kv.list returns the keys in their order
ListOf(hostnames) ==
    LET InList(h) == h \in hostnames IN SelectSeq(<<<<"g">>, <<"h">>>>, InList)

HostnameRoutes ==
    {[hostname |-> h, tenantId |-> t, workerId |-> w] :
        h \in Hostnames, t \in TenantIds, w \in WorkerIds}

\* the locals of a call on the KV storage
WithExisting(l, existing, list) ==
    [tenant |-> l.tenant, worker |-> l.worker, i |-> 1, hostnames |-> list,
     existing |-> existing]

\* put: the forward entry is written
KVHostnameStorage_put_forward(p, hostnameRoute) ==
    /\ BeginCall(p, [op |-> "kv.put", hostname |-> hostnameRoute.hostname,
                     route |-> hostnameRoute])
    /\ kv' = MapSet(kv, KV_forwardKey(hostnameRoute.hostname), hostnameRoute)
    /\ Goto(p, "kp_index", loc[p])
    /\ UNCHANGED <<stores, defaults, app, args, ret, templates, ephemeralBundles>>

\* put: the index entry is written
KVHostnameStorage_put_index(p) ==
    /\ ResumeCall(p, "kp_index")
    /\ LET r == call[p].route
       IN kv' = MapSet(kv, KV_indexKey(r.tenantId, r.workerId, r.hostname), "1")
    /\ Return(p, 0, FALSE)
    /\ UNCHANGED <<stores, defaults, app, args, ret, templates, ephemeralBundles>>

KVHostnameStorage_put(p) ==
    \/ \E hostnameRoute \in HostnameRoutes : KVHostnameStorage_put_forward(p, hostnameRoute)
    \/ KVHostnameStorage_put_index(p)

\* delete, and each delete of deleteByWorker: this.get(hostname); without an
\* entry, delete returns false and deleteByWorker goes to its next hostname
KVHostnameStorage_delete_existing(p, hostname, list) ==
    LET existing == KVHostnameStorage_get(kv, hostname)
    IN IF existing # Null
       THEN Goto(p, "kd_forward", WithExisting(loc[p], existing, list))
       ELSE IF Len(list) > 1
       THEN Goto(p, "kd_next", WithExisting(loc[p], existing, Tail(list)))
       ELSE Return(p, 0, FALSE)

KVHostnameStorage_delete_get(p, hostname) ==
    /\ BeginCall(p, [op |-> "kv.delete", hostname |-> hostname])
    /\ KVHostnameStorage_delete_existing(p, hostname, <<hostname>>)
    /\ UNCHANGED <<stores, aside>>

\* kv.delete of the forward entry
KVHostnameStorage_delete_forward(p) ==
    /\ ResumeCall(p, "kd_forward")
    /\ kv' = MapDelete(kv, KV_forwardKey(Head(loc[p].hostnames)))
    /\ Goto(p, "kd_index", loc[p])
    /\ UNCHANGED <<stores, defaults, app, args, ret, templates, ephemeralBundles>>

\* kv.delete of the index entry of the route that was read
KVHostnameStorage_delete_index(p) ==
    /\ ResumeCall(p, "kd_index")
    /\ LET existing == loc[p].existing
       IN kv' = MapDelete(kv, KV_indexKey(existing.tenantId, existing.workerId,
                                          Head(loc[p].hostnames)))
    /\ IF Len(loc[p].hostnames) > 1
       THEN Goto(p, "kd_next", WithExisting(loc[p], Null, Tail(loc[p].hostnames)))
       ELSE Return(p, 0, TRUE)
    /\ UNCHANGED <<stores, defaults, app, args, ret, templates, ephemeralBundles>>

KVHostnameStorage_delete(p) ==
    \/ \E hostname \in Hostnames : KVHostnameStorage_delete_get(p, hostname)
    \/ KVHostnameStorage_delete_forward(p)
    \/ KVHostnameStorage_delete_index(p)

\* deleteByWorker: listByWorker
KVHostnameStorage_deleteByWorker_list(p, t, w) ==
    /\ BeginCall(p, [op |-> "kv.deleteByWorker", t |-> t, w |-> w])
    /\ LET list == ListOf(KVHostnameStorage_listByWorker(kv, t, w))
       IN IF Len(list) > 0
          THEN Goto(p, "kd_next", WithExisting(loc[p], Null, list))
          ELSE Return(p, 0, FALSE)
    /\ UNCHANGED <<stores, aside>>

\* deleteByWorker: the delete of the next listed hostname starts
KVHostnameStorage_deleteByWorker_next(p) ==
    /\ ResumeCall(p, "kd_next")
    /\ KVHostnameStorage_delete_existing(p, Head(loc[p].hostnames), loc[p].hostnames)
    /\ UNCHANGED <<stores, aside>>

KVHostnameStorage_deleteByWorker(p) ==
    \/ \E t \in TenantIds, w \in WorkerIds : KVHostnameStorage_deleteByWorker_list(p, t, w)
    \/ KVHostnameStorage_deleteByWorker_next(p)

NextKV ==
    \E p \in Procs :
        \/ KVHostnameStorage_put(p)
        \/ KVHostnameStorage_delete(p)
        \/ KVHostnameStorage_deleteByWorker(p)
        \/ Finish(p)

SpecKV == Init /\ [][NextKV]_vars

\* the hostnames whose forward entry is bound to (t, w)
BoundTo(t, w) ==
    {h \in Hostnames :
        LET hostnameRoute == KVHostnameStorage_get(kv, h)
        IN IF hostnameRoute = Null
           THEN FALSE
           ELSE hostnameRoute.tenantId = t /\ hostnameRoute.workerId = w}

\* C34: when the put, delete and deleteByWorker calls made on the KV hostname
\* storage have all completed, listByWorker(t, w) is, for every tenant and
\* worker, the set of the hostnames h for which get(h) is bound to (t, w).
C34_ReverseIndexAgrees ==
    Quiescent =>
        \A t \in TenantIds, w \in WorkerIds :
            KVHostnameStorage_listByWorker(kv, t, w) = BoundTo(t, w)

\* C35: a step of a removeHostnames(t, w, hs) call leaves every route that is
\* bound to another worker than (t, w) as it is, and leaves the records of the
\* other workers unchanged.
C35_RemoveOnlyOwnRoutes ==
    [][\A p \in Procs :
          Steps(p) /\ call[p].op = "removeHostnames"
          => /\ \A h \in DOMAIN routes :
                   (routes[h].tenantId # call[p].t \/ routes[h].workerId # call[p].w)
                   => MapHas(routes', h) /\ routes'[h] = routes[h]
             /\ \A k \in DOMAIN workers \ {WorkerKey(p)} :
                   MapHas(workers', k) /\ workers'[k] = workers[k]]_vars

-----------------------------------------------------------------------------
(* Tenants and workers whose ids contain ':' *)

ScopeTenantIds == {<<"a">>, <<"a", ":", "b">>}
ScopeWorkerIds == {<<"w">>, <<"b", ":", "w">>}

NextScope ==
    \E p \in Procs :
        \/ \E t \in ScopeTenantIds : createTenant_get(p, [id |-> t])
        \/ createTenant_put(p)
        \/ \E t \in ScopeTenantIds, updates \in TenantUpdates : updateTenant_existing(p, t, updates)
        \/ updateTenant_put(p)
        \/ updateTenant_cache(p)
        \/ \E t \in ScopeTenantIds : deleteTenant_workers(p, t)
        \/ deleteTenant_tenant(p)
        \/ \E t \in ScopeTenantIds, id \in ScopeWorkerIds : createWorker_tenant(p, t, id, <<>>)
        \/ createWorker_existing(p)
        \/ createWorker_bundle(p)
        \/ createWorker_worker(p)
        \/ \E t \in ScopeTenantIds, w \in ScopeWorkerIds : getStub_read(p, t, w)
        \/ getStub_stub(p)
        \/ getStub_coldStart(p)
        \/ Finish(p)

SpecScope == Init /\ [][NextScope]_vars

\* C36: a step of updateTenant(t) or deleteTenant(t) leaves the worker records
\* of every other tenant, and the stub cache entries of the workers of every
\* other tenant, as they are, for ids with ':' too; and two different
\* (tenantId, workerId) pairs have different worker-store keys and different
\* cache keys.
C36_TenantScope ==
    [][/\ \A p \in Procs :
             Steps(p) /\ call'[p].op \in {"updateTenant", "deleteTenant"}
             => /\ \A k \in DOMAIN workers :
                      workers[k].metadata.tenantId # call'[p].t
                      => MapHas(workers', k) /\ workers'[k] = workers[k]
                /\ \A t \in ScopeTenantIds \ {call'[p].t}, w \in ScopeWorkerIds :
                      MapGet(stubCache', cacheKey(t, w)) = MapGet(stubCache, cacheKey(t, w))
       /\ \A t1 \in ScopeTenantIds, t2 \in ScopeTenantIds,
             w1 \in ScopeWorkerIds, w2 \in ScopeWorkerIds :
                <<t1, w1>> # <<t2, w2>>
                => /\ MemoryWorkerStorage_key(t1, w1) # MemoryWorkerStorage_key(t2, w2)
                   /\ cacheKey(t1, w1) # cacheKey(t2, w2)]_vars

\* C37: of two createWorker calls with the same tenant and id that ran
\* together, and of two createTenant calls with the same id that ran together,
\* at most one has returned successfully.
C37_OneCreateWins ==
    \A p \in Procs, q \in Procs :
        /\ p # q /\ Done(p, "createWorker") /\ Done(q, "createWorker")
           /\ call[p].t = call[q].t /\ call[p].w = call[q].w
           => ~(result[p].ok /\ result[q].ok)
        /\ p # q /\ Done(p, "createTenant") /\ Done(q, "createTenant")
           /\ call[p].t = call[q].t
           => ~(result[p].ok /\ result[q].ok)

-----------------------------------------------------------------------------
(* updateWorker with files: the bundle carries the modules built from the   *)
(* files of the updated config.  The platform after createTenant(a) and     *)
(* createWorker(a, w) with the first files have returned.                   *)

\* the files of the worker when it was created, and those of its updates
CreatedFiles == <<<<"a", "1">>, <<"b", "2">>>>
FileUpdates == {[files |-> <<<<"a", "2">>>>], [files |-> <<<<"b", "1">>>>], [hostnames |-> <<>>]}

\* options?.build, not given
DefaultBuild == [minify |-> FALSE]

\* the bundle of a version, with the modules buildWorker returned for the files
BundleOfFiles(version, files) ==
    [version |-> version, modules |-> CreateWorkerResult(files, DefaultBuild).modules]

InitBuild ==
    /\ tenants = MapSet(<<>>, StubTenant, NewTenantRecord([id |-> StubTenant], 0))
    /\ workers = MapSet(<<>>, MemoryWorkerStorage_key(StubTenant, StubWorker),
                        WithFiles(NewWorkerRecord(StubTenant, StubWorker, <<>>),
                                  [files |-> CreatedFiles]))
    /\ bundles = MapSet(<<>>, MemoryBundleStorage_key(StubTenant, StubWorker, FirstVersion),
                        BundleOfFiles(FirstVersion, CreatedFiles))
    /\ routes = <<>>
    /\ stubCache = <<>>
    /\ pc = [p \in Procs |-> "idle"]
    /\ call = [p \in Procs |-> NoCall]
    /\ loc = [p \in Procs |-> NoLoc]
    /\ result = [p \in Procs |-> NoResult]
    /\ hist = [p \in Procs |-> NoHist]
    /\ sequential = TRUE
    /\ calls = 0
    /\ defaults = InitialDefaults
    /\ app = InitialApp
    /\ templates = <<>>
    /\ ephemeralBundles = <<>>
    /\ kv = <<>>
    /\ args = Null
    /\ ret = Null

\* buildWorker(config.files) resumes and the bundle of its modules is put
updateWorker_build(p) ==
    /\ Resume(p, "uw_bundle")
    /\ \E outcome \in BuildOutcomes :
          /\ bundles' =
                IF outcome = "built"
                THEN MapSet(bundles,
                            MemoryBundleStorage_key(call[p].t, call[p].w, NewVersion(loc[p].worker)),
                            BundleOfFiles(NewVersion(loc[p].worker),
                                          UpdatedWorkerRecord(loc[p].worker, call[p].updates,
                                                              call[p].t, call[p].w).config.files))
                ELSE bundles
          /\ IF outcome = "built"
             THEN Goto(p, "uw_worker", loc[p])
             ELSE Throw(p, outcome)
    /\ UNCHANGED <<tenants, workers, routes, stubCache>>

NextBuild ==
    \E p \in Procs :
        \/ \E t \in TenantIds, w \in OperatedWorkerIds, updates \in FileUpdates :
              updateWorker_existing(p, t, w, updates)
        \/ updateWorker_build(p)
        \/ updateWorker_worker(p)
        \/ updateWorker_cache(p)
        \/ Finish(p)

SpecBuild == InitBuild /\ [][NextBuild]_vars

\* C38: in every reachable state, for every stored worker record, the bundle
\* stored for the version of the record has the modules built from the files
\* of the record's config.
C38_BundleOfCurrentFiles ==
    \A k \in DOMAIN workers :
        LET m == workers[k].metadata
            bundle == MapGet(bundles, MemoryBundleStorage_key(m.tenantId, m.id, m.version))
        IN /\ bundle # Null
           /\ bundle.modules = CreateWorkerResult(workers[k].config.files, DefaultBuild).modules

-----------------------------------------------------------------------------
(* A worker that is deleted and created again: the records carry the time   *)
(* of their creation, which tells the incarnations apart                    *)

\* metadata.createdAt: now
CreatedAt(record, now) ==
    [metadata |-> [id |-> record.metadata.id, tenantId |-> record.metadata.tenantId,
                   version |-> record.metadata.version, createdAt |-> now],
     config |-> record.config]

\* workers.put of the record, with the time in its metadata
createWorker_worker_now(p) ==
    /\ Resume(p, "cw_worker")
    /\ workers' = MapSet(workers, MemoryWorkerStorage_key(call[p].t, call[p].w),
                         CreatedAt(NewWorkerRecord(call[p].t, call[p].w, call[p].hs), Now))
    /\ Return(p, FirstVersion, FALSE)
    /\ UNCHANGED <<tenants, bundles, routes, stubCache>>

NextIncarnation ==
    \E p \in Procs :
        \/ fetch(p)
        \/ deleteWorker(p)
        \/ \E t \in TenantIds, id \in OperatedWorkerIds : createWorker_tenant(p, t, id, <<>>)
        \/ createWorker_existing(p)
        \/ createWorker_bundle(p)
        \/ createWorker_worker_now(p)
        \/ Finish(p)

SpecIncarnation == InitStub /\ [][NextIncarnation]_vars

\* p is a fetch that read a worker record created after a deleteWorker of the
\* worker had returned, and is the only call made since that record was put
FirstFetchOfIncarnation(p) ==
    /\ call[p].op = "fetch"
    /\ loc[p].tenant # Null
    /\ loc[p].worker # Null
    /\ "createdAt" \in DOMAIN loc[p].worker.metadata
    /\ calls = loc[p].worker.metadata.createdAt + 1

\* C39: the first fetch of a worker made after a deleteWorker of it has
\* returned and it was created again gets its stub from the loader, whatever
\* the fetches that were running during the deletion did.
C39_FreshStubAfterRecreate ==
    [][\A p \in Procs :
          Steps(p) /\ pc[p] = "gs_stub" /\ FirstFetchOfIncarnation(p)
          => pc'[p] = "gs_cold"]_vars

\* the slots declared in the opposite order
Reversed(slots) == [k \in 1..Len(slots) |-> slots[Len(slots) + 1 - k]]

\* no value of the caller has a '$', which String.prototype.replace expands
NoDollar(slotValues) == \A name \in DOMAIN slotValues : "$" \notin Range(slotValues[name])

\* C40: where every slot has a value or a default and no value has a '$', the
\* interpolated files are those of the same template with its slots declared
\* in the opposite order: a value with the placeholder of another slot is
\* inserted as it is.
C40_SlotOrderIndependent ==
    /\ Applied
    /\ \A k \in 1..Len(args.template.slots) : HasValue(args.template.slots[k], args.slots)
    /\ NoDollar(args.slots)
    => ret = interpolateTemplate([id |-> args.template.id, files |-> args.template.files,
                                  slots |-> Reversed(args.template.slots)],
                                 args.slots)

====
